---- MODULE Spec2Model ----
(***************************************************************************)
(* typed-fsm: the builder chain, the dispatch algorithm (sendFactory), the *)
(* lifecycle hooks and the FSMInstance constructor, as a call-stack        *)
(* machine.  One frame per running send() or constructor; a callback       *)
(* (transition function, onEnter, onUpdate, onExit) runs inside the frame  *)
(* that called it and may issue nested sends, which push a new frame.      *)
(***************************************************************************)
EXTENDS Integers, Sequences, FiniteSets, TLC

(***************************************************************************)
(* Bounds                                                                  *)
(***************************************************************************)
MaxSends == 3
MaxTime == 1
MaxInst == 1
MaxListeners == 2

Instances == 1 .. MaxInst
Inputs == {0, 1}

(***************************************************************************)
(* Values held by a machine (fsm.test.ts: Idle, Playing(t), Paused(t)),    *)
(* and a value that no state predicate of the tests accepts.               *)
(***************************************************************************)
Idle == [type |-> "idle", t |-> 0]
Playing(time) == [type |-> "playing", t |-> time]
Paused(time) == [type |-> "paused", t |-> time]
Bogus == [type |-> "bogus", t |-> 0]
NoValue == [type |-> "none", t |-> 0]

\* undefined, for a behavior-entry reference and for a hook set
Undefined == 0

(***************************************************************************)
(* Callbacks written by the user of the library.  A callback is given by   *)
(* the nested sends it issues through self.send (in order) before it       *)
(* returns, and by what it returns.                                        *)
(***************************************************************************)
NoFn == [defined |-> FALSE, nested |-> << >>]
Fn(nested) == [defined |-> TRUE, nested |-> nested]

\* Hooks: { onUpdate?, onExit? }
Hooks(upd, exit) == [returns |-> "hooks", onUpdate |-> upd, onExit |-> exit]
VoidHooks == [returns |-> "void", onUpdate |-> NoFn, onExit |-> NoFn]

\* Lifecycle: onEnter?: (self, entryState) => Hooks | void.  later: the
\* messages the onEnter arranges to send from a timer (setTimeout)
NoEnter ==
  [defined |-> FALSE, nested |-> << >>, later |-> << >>, result |-> VoidHooks]
OnEnter(nested, result) ==
  [defined |-> TRUE, nested |-> nested, later |-> << >>, result |-> result]
OnEnterLater(later, result) ==
  [defined |-> TRUE, nested |-> << >>, later |-> later, result |-> result]

\* MessageHandlers / WildcardHandler: (self, currentState, message) => state
Handler(nested, op, v) == [nested |-> nested, op |-> op, v |-> v]
Const(v) == Handler(<< >>, "const", v)
SeekTo == Handler(<< >>, "seekTo", NoValue)
PauseAt == Handler(<< >>, "pauseAt", NoValue)
Same == Handler(<< >>, "same", NoValue)

\* what a handler reads of the message: seek reads message.time, the other
\* handlers do not look at the message
MessageRead(h, payload) == IF h.op = "seekTo" THEN payload ELSE 0

\* the value a handler returns, from the current state and the payload
HandlerResult(h, cur, payload) ==
  CASE h.op = "const" -> h.v
    [] h.op = "seekTo" -> Playing(payload)
    [] h.op = "pauseAt" -> Paused(cur.t)
    [] OTHER -> cur

\* one entry of the BehaviorMap; ref stands for the object's reference
Entry(ref, onEnter, handling) == [ref |-> ref, onEnter |-> onEnter, handling |-> handling]

NoHandlers == [k \in {} |-> Same]

\* the wildcard handler, stored under the name '_'
Wild(h) == "_" :> h

\* states of the tests, in declaration order: { idle, paused, playing }
VideoStates ==
  << [name |-> "idle", accepts |-> {"idle"}],
     [name |-> "paused", accepts |-> {"paused"}],
     [name |-> "playing", accepts |-> {"playing"}] >>

\* messages of the tests: { play, stop, pause, seek }, name and descriptor
VideoMessages ==
  << <<"play", 1>>, <<"stop", 2>>, <<"pause", 3>>, <<"seek", 4>> >>

AllHooks == Hooks(Fn(<< >>), Fn(<< >>))

(***************************************************************************)
(* The Descriptions the machine is run on.  Each gives the arguments of    *)
(* states(), withInitialState(), messages() and behaviors().               *)
(***************************************************************************)

\* fsm.test.ts 'Second state lifecycle', 'Same lifecycle repetition',
\* 'Infinite asynchronous messages' and the README player: no nested send
VideoPlayer ==
  [states |-> VideoStates,
   factory |-> [i \in Inputs |-> Idle],
   messages |-> VideoMessages,
   behaviors |->
     [idle |-> Entry(1, NoEnter, [play |-> Const(Playing(0))]),
      paused |-> Entry(2, NoEnter, [play |-> Const(Playing(0)), stop |-> Const(Idle)]),
      playing |-> Entry(3, OnEnter(<< >>, AllHooks),
                        [play |-> Const(Playing(0)), seek |-> SeekTo,
                         pause |-> PauseAt, stop |-> Const(Idle)])]]

\* fsm.test.ts 'First state lifecycle' and 'Wildcard transition': the
\* initial state has a lifecycle, named handlers and a wildcard
Wildcard ==
  [states |-> VideoStates,
   factory |-> [i \in Inputs |-> IF i = 0 THEN Idle ELSE Playing(0)],
   messages |-> VideoMessages,
   behaviors |->
     [idle |-> Entry(1, OnEnter(<< >>, AllHooks),
                     [stop |-> Const(Idle), play |-> Const(Playing(0))] @@ Wild(Same)),
      paused |-> Entry(2, NoEnter, NoHandlers),
      playing |-> Entry(3, OnEnter(<< >>, Hooks(Fn(<< >>), NoFn)),
                        [pause |-> PauseAt] @@ Wild(Const(Idle)))]]

\* a transition author's contract violation: handlers that return a value
\* no declared state accepts
Contract ==
  [states |-> VideoStates,
   factory |-> [i \in Inputs |-> IF i = 0 THEN Idle ELSE Playing(1)],
   messages |-> VideoMessages,
   behaviors |->
     [idle |-> Entry(1, OnEnter(<< >>, AllHooks),
                     [play |-> Const(Playing(0)), stop |-> Const(Bogus)]),
      paused |-> Entry(2, NoEnter, [play |-> Const(Playing(0))] @@ Wild(Const(Bogus))),
      playing |-> Entry(3, OnEnter(<< >>, AllHooks),
                        [seek |-> SeekTo, pause |-> PauseAt, stop |-> Const(Bogus)])]]

\* fsm.test.ts 'Message sent during lifecycle enter ...': an onEnter that
\* chains immediately into a further state
NestedEnter ==
  [states |-> VideoStates,
   factory |-> [i \in Inputs |-> Idle],
   messages |-> VideoMessages,
   behaviors |->
     [idle |-> Entry(1, OnEnter(<< >>, AllHooks), [play |-> Const(Playing(0))]),
      paused |-> Entry(2, OnEnter(<< >>, AllHooks),
                       [play |-> Const(Playing(0)), stop |-> Const(Idle)]),
      playing |-> Entry(3, OnEnter(<< "pause" >>, AllHooks),
                        [pause |-> PauseAt, stop |-> Const(Idle)])]]

\* lifecycle hooks onUpdate and onExit that send a message
NestedHooks ==
  [states |-> VideoStates,
   factory |-> [i \in Inputs |-> Idle],
   messages |-> VideoMessages,
   behaviors |->
     [idle |-> Entry(1, OnEnter(<< >>, Hooks(Fn(<< "play" >>), Fn(<< "stop" >>))),
                     [pause |-> Const(Idle), play |-> Const(Playing(0)),
                      seek |-> Const(Paused(0))]),
      paused |-> Entry(2, OnEnter(<< >>, AllHooks), [play |-> Const(Idle)]),
      playing |-> Entry(3, NoEnter, [stop |-> Const(Paused(0)), pause |-> PauseAt])]]

\* transition functions that send a message through self before returning
NestedTransition ==
  [states |-> VideoStates,
   factory |-> [i \in Inputs |-> Idle],
   messages |-> VideoMessages,
   behaviors |->
     [idle |-> Entry(1, OnEnter(<< >>, AllHooks),
                     [pause |-> Const(Paused(0)),
                      play |-> Handler(<< "pause" >>, "const", Idle),
                      stop |-> Handler(<< "pause" >>, "const", Paused(1)),
                      seek |-> Handler(<< "pause" >>, "const", Bogus)]),
      paused |-> Entry(2, OnEnter(<< >>, AllHooks),
                       [stop |-> Const(Idle), seek |-> Const(Paused(1)),
                        play |-> Const(Bogus)]),
      playing |-> Entry(3, NoEnter, NoHandlers)]]

\* a behaviors map that covers only 2 of the 3 declared states
Incomplete ==
  [states |-> VideoStates,
   factory |-> [i \in Inputs |-> IF i = 0 THEN Idle ELSE Paused(0)],
   messages |-> VideoMessages,
   behaviors |->
     [idle |-> Entry(1, NoEnter, [play |-> Const(Playing(0))]),
      playing |-> Entry(3, OnEnter(<< >>, AllHooks),
                        [pause |-> PauseAt, stop |-> Const(Idle)])]]

\* the player of the README and of fsm.test.ts reduced to three transitions:
\* play from idle, seek and pause from playing; no lifecycle
Example ==
  [states |-> VideoStates,
   factory |-> [i \in Inputs |-> Idle],
   messages |-> VideoMessages,
   behaviors |->
     [idle |-> Entry(1, NoEnter, [play |-> Const(Playing(0))]),
      paused |-> Entry(2, NoEnter, NoHandlers),
      playing |-> Entry(3, NoEnter, [seek |-> SeekTo, pause |-> PauseAt])]]

\* a factory that can return a value no declared state accepts
Unresolved ==
  [states |-> VideoStates,
   factory |-> [i \in Inputs |-> IF i = 0 THEN Idle ELSE Bogus],
   messages |-> VideoMessages,
   behaviors |->
     [idle |-> Entry(1, OnEnter(<< >>, AllHooks),
                     [play |-> Const(Playing(0))] @@ Wild(Same)),
      paused |-> Entry(2, NoEnter, [play |-> Const(Playing(0))]),
      playing |-> Entry(3, OnEnter(<< >>, AllHooks),
                        [pause |-> PauseAt, stop |-> Const(Idle)])]]

\* const shared = { onEnter, handling }; behaviors({ idle: { same content },
\* paused: shared, playing: shared }): two state names on one entry object,
\* and a third name on another object with the same content
SharedEntry ==
  LET handling == [play |-> Const(Playing(0)), pause |-> PauseAt,
                   stop |-> Const(Idle)]
      shared == Entry(2, OnEnter(<< >>, AllHooks), handling)
  IN [states |-> VideoStates,
      factory |-> [i \in Inputs |-> IF i = 0 THEN Idle ELSE Paused(1)],
      messages |-> VideoMessages,
      behaviors |->
        [idle |-> Entry(1, OnEnter(<< >>, AllHooks), handling),
         paused |-> shared,
         playing |-> shared]]

\* fsm.test.ts 'Support void lifecycle': onEnter returns nothing; here also
\* for a state entered by a transition, next to a state with hooks
VoidLifecycle ==
  [states |-> VideoStates,
   factory |-> [i \in Inputs |-> IF i = 0 THEN Idle ELSE Paused(1)],
   messages |-> VideoMessages,
   behaviors |->
     [idle |-> Entry(1, OnEnter(<< >>, VoidHooks),
                     [pause |-> Const(Idle), play |-> Const(Playing(0))]),
      paused |-> Entry(2, OnEnter(<< >>, AllHooks),
                       [play |-> Const(Playing(0)), stop |-> Const(Idle)]),
      playing |-> Entry(3, OnEnter(<< >>, VoidHooks),
                        [seek |-> SeekTo, pause |-> PauseAt, stop |-> Const(Idle)])]]

\* fsm.test.ts 'Message sent during lifecycle enter ...': the onEnter of the
\* initial state sends play; here it returns hooks, and paused has a
\* lifecycle of its own
InitialSend ==
  [states |-> VideoStates,
   factory |-> [i \in Inputs |-> Idle],
   messages |-> VideoMessages,
   behaviors |->
     [idle |-> Entry(1, OnEnter(<< "play" >>, AllHooks), [play |-> Const(Playing(0))]),
      paused |-> Entry(2, OnEnter(<< >>, AllHooks), [stop |-> Const(Idle)]),
      playing |-> Entry(3, NoEnter, [seek |-> SeekTo, pause |-> PauseAt])]]

\* states({ idle, paused, playing }) with a predicate of paused that accepts
\* the playing values too: the predicates are not mutually exclusive
Overlap ==
  [states |-> << [name |-> "idle", accepts |-> {"idle"}],
                 [name |-> "paused", accepts |-> {"paused", "playing"}],
                 [name |-> "playing", accepts |-> {"playing"}] >>,
   factory |-> [i \in Inputs |-> IF i = 0 THEN Idle ELSE Playing(1)],
   messages |-> VideoMessages,
   behaviors |->
     [idle |-> Entry(1, OnEnter(<< >>, AllHooks), [play |-> Const(Playing(0))]),
      paused |-> Entry(2, OnEnter(<< >>, AllHooks),
                       [play |-> Const(Playing(0)), pause |-> PauseAt]),
      playing |-> Entry(3, OnEnter(<< >>, AllHooks),
                        [seek |-> SeekTo, stop |-> Const(Idle), pause |-> PauseAt])]]

\* const m = FSMMessage.create(); messages({ play: m, stop: m, pause, seek }):
\* one descriptor under two names
Alias ==
  [states |-> VideoStates,
   factory |-> [i \in Inputs |-> IF i = 0 THEN Idle ELSE Playing(1)],
   messages |-> << <<"play", 1>>, <<"stop", 1>>, <<"pause", 2>>, <<"seek", 3>> >>,
   behaviors |->
     [idle |-> Entry(1, OnEnter(<< >>, AllHooks),
                     [play |-> Const(Playing(0)), stop |-> Const(Paused(0))]),
      paused |-> Entry(2, NoEnter, [play |-> Const(Playing(0))]),
      playing |-> Entry(3, OnEnter(<< >>, AllHooks),
                        [seek |-> SeekTo, stop |-> Const(Idle), pause |-> PauseAt])]]

\* messages.seek = FSMMessage.create() after behaviors() has returned: the
\* send map of an Instance has the name, the reverse map has not its id.
\* The factory can also return a value no state accepts.
LateMessage ==
  [states |-> VideoStates,
   factory |-> [i \in Inputs |-> IF i = 0 THEN Idle ELSE Bogus],
   messages |-> << <<"play", 1>>, <<"stop", 2>>, <<"pause", 3>> >>,
   late |-> << <<"seek", 4>> >>,
   behaviors |->
     [idle |-> Entry(1, OnEnter(<< >>, AllHooks),
                     [play |-> Const(Playing(0)), pause |-> Const(Paused(0))]),
      paused |-> Entry(2, OnEnter(<< >>, AllHooks),
                       [play |-> Const(Playing(0))] @@ Wild(Same)),
      playing |-> Entry(3, OnEnter(<< "seek" >>, AllHooks),
                        [seek |-> SeekTo, stop |-> Const(Idle), pause |-> PauseAt])]]

\* fsm.test.ts 'Asynchronous message leading to state change' and 'State
\* getter asynchronously': the onEnter of idle starts a timer that sends play
\* and never cancels it; here the player can also be stopped, so that idle is
\* entered again while timers of an earlier stay are pending
Async ==
  [states |-> VideoStates,
   factory |-> [i \in Inputs |-> Idle],
   messages |-> VideoMessages,
   behaviors |->
     [idle |-> Entry(1, OnEnterLater(<< "play" >>, Hooks(NoFn, Fn(<< >>))),
                     [pause |-> Const(Idle), play |-> Const(Playing(0))]),
      paused |-> Entry(2, NoEnter, NoHandlers),
      playing |-> Entry(3, NoEnter, [stop |-> Const(Idle)])]]

(***************************************************************************)
(* Observable Descriptions: the argument of observable() as well.  A       *)
(* listener is the callback given to observer.onValue: called with a value *)
(* of state `on`, it ends the subscriptions of the listeners `detach` and  *)
(* then sends the messages `nested` to the Instance.                       *)
(***************************************************************************)
Listener(name, on, detach, nested) ==
  [name |-> name, on |-> on, detach |-> detach, nested |-> nested]

\* fsm.test.ts 'State as observable': value => { subject.next(value) }
Passive == Listener("passive", "", {}, << >>)
\* a listener that reacts to playing by sending pause
Sender == Listener("sender", "playing", {}, << "pause" >>)
\* a listener that reacts to playing by ending the subscription made after
\* its own
Detacher == Listener("detacher", "playing", {1}, << >>)

\* the listeners a listener attaches to the observer it listens to when it
\* reacts: observer.onValue called from inside a callback
Attaches(cb) == IF "attach" \in DOMAIN cb THEN cb.attach ELSE << >>
\* a listener that reacts to playing by attaching a further listener and
\* then sending pause
Attacher ==
  [name |-> "attacher", on |-> "playing", detach |-> {}, nested |-> << "pause" >>,
   attach |-> << Passive >>]

\* the listeners the caller attaches through the handle
Callbacks == {Passive, Sender}

\* observable(observer => ...): the listeners the factory attaches, in
\* order, and what it returns: a subject fed by its listener, or the observer
ObservableHook(attach, returns) == [attach |-> attach, returns |-> returns]

\* fsm.test.ts 'State as observable'
WithSubject ==
  [states |-> VideoStates,
   factory |-> [i \in Inputs |-> Idle],
   messages |-> VideoMessages,
   behaviors |->
     [idle |-> Entry(1, NoEnter, [play |-> Const(Playing(0))]),
      paused |-> Entry(2, NoEnter, NoHandlers),
      playing |-> Entry(3, NoEnter, [stop |-> Const(Idle)])],
   observable |-> ObservableHook(<< Passive >>, "subject")]

\* observable(observer => observer): the caller attaches and detaches
\* listeners; every state has a lifecycle
Listeners ==
  [states |-> VideoStates,
   factory |-> [i \in Inputs |-> Idle],
   messages |-> VideoMessages,
   behaviors |->
     [idle |-> Entry(1, OnEnter(<< >>, AllHooks), [play |-> Const(Playing(0))]),
      paused |-> Entry(2, NoEnter, [stop |-> Const(Idle)]),
      playing |-> Entry(3, OnEnter(<< >>, AllHooks),
                        [seek |-> SeekTo, pause |-> PauseAt])],
   observable |-> ObservableHook(<< >>, "observer")]

\* a factory that attaches three listeners, the first of which ends the
\* subscription of the second when the machine plays
Detaching ==
  [states |-> VideoStates,
   factory |-> [i \in Inputs |-> Idle],
   messages |-> VideoMessages,
   behaviors |->
     [idle |-> Entry(1, NoEnter, [play |-> Const(Playing(0))]),
      paused |-> Entry(2, NoEnter, NoHandlers),
      playing |-> Entry(3, OnEnter(<< >>, AllHooks),
                        [seek |-> SeekTo, stop |-> Const(Idle)])],
   observable |-> ObservableHook(<< Detacher, Passive, Passive >>, "subject")]

ObsDescNames == {"WithSubject", "Listeners", "Detaching"}

\* observable(observer => observer) with a factory that attaches a listener
\* which attaches another one during a delivery; the caller attaches more
Attaching ==
  [states |-> VideoStates,
   factory |-> [i \in Inputs |-> Idle],
   messages |-> VideoMessages,
   behaviors |->
     [idle |-> Entry(1, OnEnter(<< >>, AllHooks), [play |-> Const(Playing(0))]),
      paused |-> Entry(2, OnEnter(<< >>, AllHooks),
                       [play |-> Const(Playing(0)), pause |-> Same,
                        stop |-> Const(Idle)]),
      playing |-> Entry(3, OnEnter(<< >>, AllHooks),
                        [pause |-> PauseAt, stop |-> Const(Idle)])],
   observable |-> ObservableHook(<< Attacher >>, "observer")]

\* after fsm.test.ts videoPlayerSkeleton, with three of its messages: one
\* messages-stage from which two Descriptions are made, each by a
\* behaviors() call with its own map; the entries of the second map are
\* objects of their own
SkeletonFirst ==
  [states |-> VideoStates,
   factory |-> [i \in Inputs |-> Idle],
   messages |-> << <<"play", 1>>, <<"stop", 2>>, <<"pause", 3>> >>,
   behaviors |->
     [idle |-> Entry(1, OnEnter(<< >>, AllHooks), [play |-> Const(Playing(0))]),
      paused |-> Entry(2, NoEnter, [stop |-> Const(Idle)]),
      playing |-> Entry(3, OnEnter(<< >>, AllHooks),
                        [play |-> Same, pause |-> PauseAt])]]

SkeletonSecond ==
  [states |-> VideoStates,
   factory |-> [i \in Inputs |-> Idle],
   messages |-> << <<"play", 1>>, <<"stop", 2>>, <<"pause", 3>> >>,
   behaviors |->
     [idle |-> Entry(4, OnEnter(<< >>, AllHooks),
                     [play |-> Const(Paused(0)), stop |-> Const(Idle)]),
      paused |-> Entry(5, OnEnter(<< "play" >>, AllHooks),
                       [play |-> Const(Playing(0))]),
      playing |-> Entry(6, NoEnter, [stop |-> Const(Idle)])]]

SkeletonDescNames == {"SkeletonFirst", "SkeletonSecond"}

\* hooks that raise: each of them sends a message whose name was added to
\* the messages object after behaviors(), which makes that send, and so the
\* hook, throw.  idle: onUpdate raises; playing: onExit raises; paused:
\* onEnter raises.  The factory attaches one listener.
RaisingHooks ==
  [states |-> VideoStates,
   factory |-> [i \in Inputs |-> IF i = 0 THEN Idle ELSE Playing(1)],
   messages |-> << <<"play", 1>>, <<"stop", 2>>, <<"pause", 3>> >>,
   late |-> << <<"seek", 4>> >>,
   behaviors |->
     [idle |-> Entry(1, OnEnter(<< >>, Hooks(Fn(<< "seek" >>), Fn(<< >>))),
                     [play |-> Const(Playing(0)), pause |-> Const(Paused(0)),
                      stop |-> Const(Idle)]),
      paused |-> Entry(2, OnEnter(<< "seek" >>, AllHooks),
                       [play |-> Const(Playing(0)), stop |-> Const(Idle)]),
      playing |-> Entry(3, OnEnter(<< >>, Hooks(Fn(<< >>), Fn(<< "seek" >>))),
                        [play |-> Const(Playing(0)), stop |-> Const(Idle)])],
   observable |-> ObservableHook(<< Passive >>, "observer")]

DescNames ==
  {"VideoPlayer", "Wildcard", "Contract", "NestedEnter", "NestedHooks",
   "NestedTransition", "Incomplete"}

Description(n) ==
  CASE n = "VideoPlayer" -> VideoPlayer
    [] n = "Wildcard" -> Wildcard
    [] n = "Contract" -> Contract
    [] n = "NestedEnter" -> NestedEnter
    [] n = "NestedHooks" -> NestedHooks
    [] n = "NestedTransition" -> NestedTransition
    [] n = "Async" -> Async
    [] n = "Example" -> Example
    [] n = "Unresolved" -> Unresolved
    [] n = "Overlap" -> Overlap
    [] n = "RaisingHooks" -> RaisingHooks
    [] n = "Attaching" -> Attaching
    [] n = "SkeletonFirst" -> SkeletonFirst
    [] n = "SkeletonSecond" -> SkeletonSecond
    [] n = "Alias" -> Alias
    [] n = "LateMessage" -> LateMessage
    [] n = "SharedEntry" -> SharedEntry
    [] n = "VoidLifecycle" -> VoidLifecycle
    [] n = "InitialSend" -> InitialSend
    [] n = "WithSubject" -> WithSubject
    [] n = "Listeners" -> Listeners
    [] n = "Detaching" -> Detaching
    [] OTHER -> Incomplete


(***************************************************************************)
(* State                                                                   *)
(***************************************************************************)
VARIABLES
  d,                  \* the Description under construction / constructed
  descriptionOf,      \* per Instance: the Description whose create() made it
  stage,              \* the builder-chain object the caller holds
  messageId,          \* module-level counter of FSMMessage.create
  descriptors,        \* _id of each descriptor created so far
  reverseMessageMap,  \* FSMDescription: message id -> message name
  created,            \* per Instance: "no", "constructing", "yes", "failed"
  value,              \* FSMInstance._value
  hooks,              \* FSMInstance._hooks (a reference into hookObjs)
  hookObjs,           \* the hook sets returned by onEnter calls so far
  stack,              \* call stack: running send() / constructor frames
  log,                \* everything observable that happened, in order
  nSends,             \* number of calls issued by the caller and by timers
  followers,          \* InternalObserver.followers, per observer
  cbId,               \* InternalObserver.cbId, per observer
  asObservable,       \* ObservableFSMInstance.asObservable
  timers              \* the timers started by onEnter calls and not yet fired

vars ==
  << d, descriptionOf, stage, messageId, descriptors, reverseMessageMap, created, value,
     hooks, hookObjs, stack, log, nSends, followers, cbId, asObservable,
     timers >>

\* the Description whose code is running: the one that made the Instance of
\* the running send() or constructor (its dispatch closure), and between
\* calls the one the caller has built last
\* faulty variant of D: every Instance runs the Description built last
DLatest == Description(d)

D ==
  Description(IF stack = << >> THEN d ELSE descriptionOf[stack[Len(stack)].inst])

\* the messages object as dispatch finds it when an Instance is constructed:
\* the argument of messages(), and the names the caller has added to that
\* object after behaviors() (late, given by few Descriptions)
AllMessages(desc) ==
  desc.messages \o (IF "late" \in DOMAIN desc THEN desc.late ELSE << >>)

MessageNames(desc) == {AllMessages(desc)[k][1] : k \in 1 .. Len(AllMessages(desc))}

\* messages[name]._id, for a name found in the messages object
DescriptorOf(desc, name) ==
  LET k == CHOOSE k \in 1 .. Len(AllMessages(desc)) : AllMessages(desc)[k][1] = name
  IN descriptors[AllMessages(desc)[k][2]]

NumDescriptors(desc) ==
  LET used == {AllMessages(desc)[k][2] : k \in 1 .. Len(AllMessages(desc))}
  IN CHOOSE n \in used : \A m \in used : m <= n

(***************************************************************************)
(* State Registry                                                          *)
(***************************************************************************)
UndefinedKey == ""

RECURSIVE FindStateKeyFrom(_, _, _)
FindStateKeyFrom(desc, v, i) ==
  IF i > Len(desc.states) THEN UndefinedKey
  ELSE IF v.type \in desc.states[i].accepts THEN desc.states[i].name
  ELSE FindStateKeyFrom(desc, v, i + 1)

\* faulty variant of findStateKey: a value no state accepts is taken to be
\* in the first declared state
findStateKeyOrFirst(desc, v) ==
  LET stateKey == FindStateKeyFrom(desc, v, 1)
  IN IF stateKey = UndefinedKey THEN desc.states[1].name ELSE stateKey

\* faulty variant of findStateKey: of the states that accept the value, the
\* one declared last is returned
findStateKeyLast(desc, v) ==
  LET ks == {k \in 1 .. Len(desc.states) : v.type \in desc.states[k].accepts}
  IN IF ks = {} THEN UndefinedKey
     ELSE desc.states[CHOOSE k \in ks : \A m \in ks : m <= k].name

findStateKey(desc, v) == FindStateKeyFrom(desc, v, 1)

\* faulty variant of findStateBehavior: a state without an entry falls back
\* on the first entry
findStateBehaviorOrFirst(desc, v) ==
  LET stateKey == findStateKey(desc, v)
  IN IF stateKey # UndefinedKey
     THEN IF stateKey \in DOMAIN desc.behaviors
          THEN desc.behaviors[stateKey].ref
          ELSE desc.behaviors[desc.states[1].name].ref
     ELSE Undefined

\* the reference of behaviors[stateKey], or undefined
findStateBehavior(desc, v) ==
  LET stateKey == findStateKey(desc, v)
  IN IF stateKey # UndefinedKey
     THEN IF stateKey \in DOMAIN desc.behaviors
          THEN desc.behaviors[stateKey].ref ELSE Undefined
     ELSE Undefined

\* the behavior entry behind a reference
EntryOf(desc, ref) ==
  LET k == CHOOSE k \in DOMAIN desc.behaviors : desc.behaviors[k].ref = ref
  IN desc.behaviors[k]

(***************************************************************************)
(* Log                                                                     *)
(***************************************************************************)
BlankEv ==
  [ev |-> "", inst |-> 0, depth |-> 0, name |-> "", key |-> "", hook |-> 0,
   entry |-> 0, prev |-> NoValue, val |-> NoValue, cid |-> 0, arg |-> 0]

NumCommits == Cardinality({j \in 1 .. Len(log) : log[j].ev = "commit"})

(***************************************************************************)
(* Call stack                                                              *)
(***************************************************************************)
Depth == Len(stack)
Top == stack[Depth]
Idle0 == stack = << >>

Frame(kind, i, name, msg, payload) ==
  [kind |-> kind, inst |-> i, pc |-> "start", name |-> name, msg |-> msg,
   payload |-> payload, state |-> NoValue, stateKey |-> UndefinedKey,
   stateBehavior |-> Undefined, messageKey |-> UndefinedKey,
   handlerKey |-> UndefinedKey, newState |-> NoValue,
   newStateBehavior |-> Undefined, currentHooks |-> Undefined,
   todo |-> << >>, cid |-> 0]

Pop == SubSeq(stack, 1, Depth - 1)
SetTop(f) == [stack EXCEPT ![Depth] = f]

\* asObservable of an Instance that is not observable
NoHandle == [kind |-> "none", of |-> 0]

\* the module is loaded and nothing is built yet; insts: the Instances the
\* caller is going to create
Start(insts) ==
  /\ stage = "FSMTyped"
  /\ messageId = 1
  /\ descriptors = << >>
  /\ reverseMessageMap = << >>
  /\ descriptionOf = [i \in insts |-> ""]
  /\ created = [i \in insts |-> "no"]
  /\ value = [i \in insts |-> NoValue]
  /\ hooks = [i \in insts |-> Undefined]
  /\ hookObjs = << >>
  /\ stack = << >>
  /\ log = << >>
  /\ nSends = 0
  /\ followers = [o \in insts |-> << >>]
  /\ cbId = [o \in insts |-> 0]
  /\ asObservable = [i \in insts |-> NoHandle]
  /\ timers = {}

Init ==
  /\ d \in DescNames
  /\ Start(Instances)


(***************************************************************************)
(* Message Registry and the builder chain                                  *)
(***************************************************************************)

\* (value: T) => ({ _id, value }): the message instance built by the k-th
\* descriptor
MessageInstance(k, payload) == [_id |-> descriptors[k], value |-> payload]

\* faulty variant of FSMMessageCreate: the counter is read but not advanced
FSMMessageCreateSameId ==
  /\ stage = "FSMTyped"
  /\ Len(descriptors) < NumDescriptors(D)
  /\ descriptors' = Append(descriptors, messageId)
  /\ UNCHANGED << d, descriptionOf, stage, messageId, reverseMessageMap, created, value, hooks,
                  hookObjs, stack, log, nSends, followers, cbId, asObservable,
                  timers >>

\* FSMMessage.create: const _id = messageId++
FSMMessageCreate ==
  /\ stage = "FSMTyped"
  /\ Len(descriptors) < NumDescriptors(D)
  /\ descriptors' = Append(descriptors, messageId)
  /\ messageId' = messageId + 1
  /\ UNCHANGED << d, descriptionOf, stage, reverseMessageMap, created, value, hooks,
                  hookObjs, stack, log, nSends, followers, cbId, asObservable,
                  timers >>

BuilderFrame ==
  UNCHANGED << d, descriptionOf, messageId, descriptors, reverseMessageMap, created, value,
               hooks, hookObjs, stack, log, nSends, followers, cbId,
               asObservable, timers >>

\* FSMTyped.states
States ==
  /\ stage = "FSMTyped"
  /\ Len(descriptors) = NumDescriptors(D)
  /\ stage' = "FSMWithStates"
  /\ BuilderFrame

\* FSMWithStates.withInitialState
WithInitialState ==
  /\ stage = "FSMWithStates"
  /\ stage' = "FSMWithStatesInitialized"
  /\ BuilderFrame

\* FSMWithStatesInitialized.messages
Messages ==
  /\ stage = "FSMWithStatesInitialized"
  /\ stage' = "FSMMessagesInitialized"
  /\ BuilderFrame

\* faulty variant of BuildReverseMessageMap: the map is made from the
\* messages object as it is when an Instance is constructed
RECURSIVE BuildReverseMessageMapLive(_, _, _)
BuildReverseMessageMapLive(desc, k, map) ==
  IF k > Len(AllMessages(desc)) THEN map
  ELSE BuildReverseMessageMapLive(desc, k + 1,
         (descriptors[AllMessages(desc)[k][2]] :> AllMessages(desc)[k][1]) @@ map)

\* for (let messageName in messages) reverseMessageMap[messageId] = messageName
RECURSIVE BuildReverseMessageMap(_, _, _)
BuildReverseMessageMap(desc, k, map) ==
  IF k > Len(desc.messages) THEN map
  ELSE BuildReverseMessageMap(desc, k + 1,
         (descriptors[desc.messages[k][2]] :> desc.messages[k][1]) @@ map)

\* FSMMessagesInitialized.behaviors: new FSMDescription(...)
Behaviors ==
  /\ stage = "FSMMessagesInitialized"
  /\ stage' = "FSMDescription"
  /\ reverseMessageMap' = BuildReverseMessageMap(D, 1, << >>)
  /\ UNCHANGED << d, descriptionOf, messageId, descriptors, created, value, hooks, hookObjs,
                  stack, log, nSends, followers, cbId, asObservable, timers >>

\* FSMMessagesInitialized.behaviors called again on the messages-stage the
\* caller still holds, with the other behaviors map of the skeleton: a new
\* FSMDescription with a reverse map of its own, made of the same messages
BehaviorsAgain ==
  /\ stage = "FSMDescription"
  /\ stack = << >>
  /\ d \in SkeletonDescNames
  /\ d' \in SkeletonDescNames \ {d}
  /\ reverseMessageMap' = BuildReverseMessageMap(Description(d'), 1, << >>)
  /\ UNCHANGED << descriptionOf, stage, messageId, descriptors, created, value,
                  hooks, hookObjs, stack, log, nSends, followers, cbId,
                  asObservable, timers >>

(***************************************************************************)
(* Instance: FSMDescription.create and the FSMInstance constructor         *)
(***************************************************************************)
NewHookObj(i, ref, result, cid) ==
  [inst |-> i, entry |-> ref, onUpdate |-> result.onUpdate,
   onExit |-> result.onExit, cid |-> cid]

\* setTimeout(() => self.send.<name>({}), ...), once per message of later
TimersOf(i, later, cid) ==
  {[inst |-> i, name |-> later[k], cid |-> cid, k |-> k] : k \in 1 .. Len(later)}

\* new FSMInstance(initialValue, dispatch, findStateBehavior), up to the call
\* of the initial onEnter; before: what create() has logged by then
FSMInstanceNew(i, input, initialValue, before) ==
  LET initialBehavior == findStateBehavior(D, initialValue)
      cid == NumCommits + 1
      commit == [BlankEv EXCEPT !.ev = "commit", !.inst = i, !.name = "create",
                                !.entry = initialBehavior, !.val = initialValue,
                                !.cid = cid]
  IN /\ value' = [value EXCEPT ![i] = initialValue]
     /\ descriptionOf' = [descriptionOf EXCEPT ![i] = d]
     /\ IF initialBehavior # Undefined /\ EntryOf(D, initialBehavior).onEnter.defined
        THEN /\ stack' = << [Frame("create", i, "create", 0, input) EXCEPT
                               !.pc = "onEnter", !.newState = initialValue,
                               !.newStateBehavior = initialBehavior,
                               !.todo = EntryOf(D, initialBehavior).onEnter.nested,
                               !.cid = cid] >>
             /\ created' = [created EXCEPT ![i] = "constructing"]
             /\ log' = log \o before \o
                         << commit,
                            [BlankEv EXCEPT !.ev = "onEnter", !.inst = i, !.depth = 1,
                                            !.entry = initialBehavior,
                                            !.val = initialValue, !.cid = cid] >>
             /\ timers' = timers \cup
                            TimersOf(i, EntryOf(D, initialBehavior).onEnter.later, cid)
        ELSE /\ stack' = stack
             /\ created' = [created EXCEPT ![i] = "yes"]
             /\ log' = log \o before \o << commit >>
             /\ timers' = timers

\* FSMDescription.create
Create(i, input) ==
  /\ stage = "FSMDescription"
  /\ Idle0
  /\ created[i] = "no"
  /\ \A j \in DOMAIN created : j < i => created[j] # "no"
  /\ FSMInstanceNew(i, input, D.factory[input], << >>)
  /\ UNCHANGED << d, stage, messageId, descriptors, reverseMessageMap, hooks,
                  hookObjs, nSends, followers, cbId, asObservable >>

\* const hooks = initialBehavior.onEnter(...); this._hooks = hooks
ConstructorReturn ==
  /\ ~Idle0
  /\ Top.kind = "create"
  /\ Top.pc = "onEnter"
  /\ Top.todo = << >>
  /\ LET i == Top.inst
         result == EntryOf(D, Top.newStateBehavior).onEnter.result
     IN /\ IF result.returns = "void"
           THEN /\ hooks' = [hooks EXCEPT ![i] = Undefined]
                /\ hookObjs' = hookObjs
           ELSE /\ hooks' = [hooks EXCEPT ![i] = Len(hookObjs) + 1]
                /\ hookObjs' = Append(hookObjs,
                                 NewHookObj(i, Top.newStateBehavior, result, Top.cid))
        /\ created' = [created EXCEPT ![i] = "yes"]
        /\ stack' = Pop
        /\ log' = Append(log, [BlankEv EXCEPT !.ev = "created", !.inst = i,
                                              !.depth = Depth, !.hook = hooks'[i]])
  /\ UNCHANGED << d, descriptionOf, stage, messageId, descriptors, reverseMessageMap, value,
                  nSends, followers, cbId, asObservable, timers >>


(***************************************************************************)
(* Dispatcher: sendFactory                                                 *)
(***************************************************************************)
Static ==
  UNCHANGED << d, descriptionOf, stage, messageId, descriptors, reverseMessageMap, followers,
               cbId, asObservable, timers >>

\* key: the callback that issued the call ("" for the caller of the Instance),
\* cid: the commit that callback belongs to
CallEv(i, name, depth, from, cid) ==
  [BlankEv EXCEPT !.ev = "call", !.inst = i, !.depth = depth, !.name = name,
                  !.val = value[i], !.hook = hooks[i], !.key = from, !.cid = cid]

\* instance.send.<name>(payload) is entered from outside of any callback
Invoke(i, name, payload) ==
  /\ Idle0
  /\ created[i] = "yes"
  /\ name \in MessageNames(D)
  /\ stack' = << Frame("send", i, name, DescriptorOf(D, name), payload) >>
  /\ log' = Append(log, CallEv(i, name, 1, "", 0))
  /\ nSends' = nSends + 1
  /\ UNCHANGED << created, value, hooks, hookObjs >>
  /\ Static

\* the caller invokes instance.send.<name>(payload)
Send(i, name, payload) ==
  /\ nSends < MaxSends
  /\ Invoke(i, name, payload)

\* a timer started by an onEnter fires when no call is running: its callback
\* invokes self.send.<name>({})
TimerFires ==
  /\ Idle0
  /\ nSends < MaxSends
  /\ \E t \in timers :
       /\ stack' = << Frame("send", t.inst, t.name, DescriptorOf(D, t.name), 0) >>
       /\ log' = Append(log, CallEv(t.inst, t.name, 1, "timer", t.cid))
       /\ timers' = timers \ {t}
  /\ nSends' = nSends + 1
  /\ UNCHANGED << d, descriptionOf, stage, messageId, descriptors, reverseMessageMap, created,
                  value, hooks, hookObjs, followers, cbId, asObservable >>

\* faulty variant of NestedSend: the message is put aside and the callback
\* goes on at once
NestedSendPutAside ==
  /\ ~Idle0
  /\ Top.pc \in {"transition", "onUpdate", "onExit", "onEnter"}
  /\ Top.todo # << >>
  /\ stack' = SetTop([Top EXCEPT !.todo = Tail(Top.todo)])
  /\ log' = Append(log, CallEv(Top.inst, Head(Top.todo), Depth + 1, Top.pc, Top.cid))
  /\ UNCHANGED << created, value, hooks, hookObjs, nSends >>
  /\ Static

InCallback(f) == f.pc \in {"transition", "onUpdate", "onExit", "onEnter", "listener"}

\* the running callback invokes self.send.<name>({}): a nested stack frame
NestedSend ==
  /\ ~Idle0
  /\ InCallback(Top)
  /\ Top.todo # << >>
  /\ LET name == Head(Top.todo)
     IN /\ stack' = Append(SetTop([Top EXCEPT !.todo = Tail(Top.todo)]),
                           Frame("send", Top.inst, name, DescriptorOf(D, name), 0))
        /\ log' = Append(log, CallEv(Top.inst, name, Depth + 1, Top.pc, Top.cid))
  /\ UNCHANGED << created, value, hooks, hookObjs, nSends >>
  /\ Static

\* faulty variant of Throw: the value is put back to what the outermost send
\* found when it started
ThrowRestores(what) ==
  /\ stack' = << >>
  /\ value' = IF stack[1].kind = "send" /\ stack[1].pc # "start"
              THEN [value EXCEPT ![stack[1].inst] = stack[1].state]
              ELSE value
  /\ log' = Append(log, [BlankEv EXCEPT !.ev = "raise", !.inst = Top.inst,
                                        !.depth = Depth, !.name = Top.name,
                                        !.key = what,
                                        !.val = value'[Top.inst],
                                        !.hook = hooks[Top.inst]])
  /\ created' = IF stack[1].kind = "create"
                THEN [created EXCEPT ![stack[1].inst] = "failed"]
                ELSE created
  /\ UNCHANGED << hooks, hookObjs >>

\* throw new Error(...): unwinds every frame up to the caller
Throw(what) ==
  /\ stack' = << >>
  /\ log' = Append(log, [BlankEv EXCEPT !.ev = "raise", !.inst = Top.inst,
                                        !.depth = Depth, !.name = Top.name,
                                        !.key = what,
                                        !.val = value[Top.inst],
                                        !.hook = hooks[Top.inst]])
  /\ created' = IF stack[1].kind = "create"
                THEN [created EXCEPT ![stack[1].inst] = "failed"]
                ELSE created
  /\ UNCHANGED << value, hooks, hookObjs >>

ReturnEv(f, what, h) ==
  [BlankEv EXCEPT !.ev = what, !.inst = f.inst, !.depth = Depth, !.name = f.name,
                  !.cid = f.cid, !.val = value[f.inst], !.hook = h]

\* faulty variant of messageTransition: the wildcard shadows the named handlers
messageTransitionWildcardFirst(handling, messageKey) ==
  IF "_" \in DOMAIN handling THEN "_"
  ELSE IF messageKey \in DOMAIN handling THEN messageKey
  ELSE UndefinedKey

\* stateBehavior.handling[messageKey] || stateBehavior.handling['_']
messageTransition(handling, messageKey) ==
  IF messageKey \in DOMAIN handling THEN messageKey
  ELSE IF "_" \in DOMAIN handling THEN "_"
  ELSE UndefinedKey

\* faulty variant of Unhandled: an unhandled message is fatal
UnhandledThrows(stateKey, messageKey) == Throw("transition")

\* faulty variant of Unhandled: the message is dropped without a diagnostic
UnhandledSilent(stateKey, messageKey) ==
  /\ stack' = Pop
  /\ log' = Append(log, ReturnEv(Top, "ignored", hooks[Top.inst]))
  /\ UNCHANGED << created, value, hooks, hookObjs >>

\* console.warn(text): the text of noTransition names the state and the message
WarnText(stateKey, messageKey) ==
  [BlankEv EXCEPT !.ev = "warn", !.inst = Top.inst, !.depth = Depth,
                  !.key = stateKey, !.name = messageKey]

\* console.warn({ messageKey, state, messages }): the message name and the
\* current value, not the name of its state
WarnDump(messageKey, state) ==
  [BlankEv EXCEPT !.ev = "warn", !.inst = Top.inst, !.depth = Depth,
                  !.key = UndefinedKey, !.name = messageKey, !.val = state]

\* console.warn(noTransition(stateKey, messageKey));
\* console.warn({ messageKey, state, messages }); return
Unhandled(stateKey, messageKey) ==
  /\ stack' = Pop
  /\ log' = log \o << WarnText(stateKey, messageKey),
                      WarnDump(messageKey, value[Top.inst]),
                      ReturnEv(Top, "ignored", hooks[Top.inst]) >>
  /\ UNCHANGED << created, value, hooks, hookObjs >>

\* faulty variant of stateGet: the getter answers with the initial value
stateGetInitial(i) ==
  LET made == {j \in 1 .. Len(log) : /\ log[j].ev = "commit" /\ log[j].inst = i
                                     /\ log[j].name = "create"}
  IN log[CHOOSE j \in made : TRUE].val

\* faulty variant of stateGet: the getter of the first Instance serves every
\* Instance of the Description
stateGetFirst(i) == value[CHOOSE j \in DOMAIN value : \A m \in DOMAIN value : j <= m]

\* this.value = () => this._value
stateGet(i) == value[i]

\* from the entry of send up to the call of the transition function
SendStart ==
  /\ ~Idle0
  /\ Top.kind = "send"
  /\ Top.pc = "start"
  /\ LET i == Top.inst
         state == stateGet(i)
         stateKey == findStateKey(D, state)
         stateBehavior == findStateBehavior(D, state)
         messageKey == IF Top.msg \in DOMAIN reverseMessageMap
                       THEN reverseMessageMap[Top.msg] ELSE UndefinedKey
     IN IF stateBehavior = Undefined THEN Throw("state")
        ELSE IF messageKey = UndefinedKey THEN Throw("message")
        ELSE LET handling == EntryOf(D, stateBehavior).handling
                 handlerKey == messageTransition(handling, messageKey)
             IN IF handlerKey = UndefinedKey
                THEN Unhandled(stateKey, messageKey)
                ELSE /\ stack' = SetTop([Top EXCEPT
                            !.pc = "transition", !.state = state,
                            !.stateKey = stateKey, !.stateBehavior = stateBehavior,
                            !.messageKey = messageKey, !.handlerKey = handlerKey,
                            !.todo = handling[handlerKey].nested])
                     /\ log' = Append(log,
                          [BlankEv EXCEPT !.ev = "transition", !.inst = i,
                                          !.depth = Depth, !.entry = stateBehavior,
                                          !.key = handlerKey, !.name = messageKey,
                                          !.prev = state,
                                          !.arg = MessageRead(handling[handlerKey],
                                                              Top.payload)])
                     /\ UNCHANGED << created, value, hooks, hookObjs >>
  /\ UNCHANGED nSends
  /\ Static

\* faulty variant of stateSet: a result of the state the machine is already
\* in is not stored
stateSetOnStateChange(i, newState) ==
  IF value[i].type = newState.type THEN value ELSE [value EXCEPT ![i] = newState]

\* (newState) => this._value = newState
stateSet(i, newState) == [value EXCEPT ![i] = newState]

\* faulty variant of hookSet: the hook set is kept once for the Description
hookSetShared(i, h) == [j \in DOMAIN hooks |-> h]

\* (hooks) => this._hooks = hooks
hookSet(i, h) == [hooks EXCEPT ![i] = h]

\* faulty variant of ObserverOf: one observer serves every Instance of the
\* Description
ObserverShared(i) == 1

\* const observer = new InternalObserver(): one per create()
ObserverOf(i) == i

\* the Instance comes from FSMDescriptionWithObservable.create
Observed(i) == stage = "FSMDescriptionWithObservable"

\* Object.keys(followers): the ids of the attached listeners, ascending
KeysOf(f, n) ==
  SelectSeq([k \in 1 .. n |-> k - 1], LAMBDA k : k \in DOMAIN f)

\* observer.next(state) is entered: the listeners to call are fixed now
NextFrame(i, state, keys, cid) ==
  [Frame("next", i, "next", 0, 0) EXCEPT
     !.pc = "next", !.newState = state, !.todo = keys, !.cid = cid]

\* faulty variant of RejectNewState: the result is stored before it is checked
RejectAfterCommit(newState) ==
  /\ stack' = << >>
  /\ value' = [value EXCEPT ![Top.inst] = newState]
  /\ log' = Append(log, [BlankEv EXCEPT !.ev = "raise", !.inst = Top.inst,
                                        !.depth = Depth, !.name = Top.name,
                                        !.key = "newState", !.val = newState,
                                        !.hook = hooks[Top.inst]])
  /\ UNCHANGED << created, hooks, hookObjs >>

\* the newStateBehavior === undefined branch: nothing is committed
RejectNewState(newState) == Throw("newState")

\* the transition function returns: check its result, then stateSet(newState)
TransitionReturn ==
  /\ ~Idle0
  /\ Top.pc = "transition"
  /\ Top.todo = << >>
  /\ LET i == Top.inst
         h == EntryOf(D, Top.stateBehavior).handling[Top.handlerKey]
         newState == HandlerResult(h, Top.state, Top.payload)
         newStateBehavior == findStateBehavior(D, newState)
         cid == NumCommits + 1
     IN IF newStateBehavior = Undefined
        THEN RejectNewState(newState)
        ELSE /\ value' = stateSet(i, newState)
             /\ LET committed == [Top EXCEPT !.pc = "committed",
                                             !.newState = newState,
                                             !.newStateBehavior = newStateBehavior,
                                             !.cid = cid]
                    o == ObserverOf(i)
                    keys == KeysOf(followers[o], cbId[o])
                IN stack' = IF Observed(i) /\ keys # << >>
                            THEN Append(SetTop(committed),
                                        NextFrame(i, newState, keys, cid))
                            ELSE SetTop(committed)
             /\ log' = Append(log,
                  [BlankEv EXCEPT !.ev = "commit", !.inst = i, !.depth = Depth,
                                  !.name = Top.name, !.entry = newStateBehavior,
                                  !.prev = value[i], !.val = newState, !.cid = cid,
                                  !.hook = hooks[i]])
             /\ UNCHANGED << created, hooks, hookObjs >>
  /\ UNCHANGED nSends
  /\ Static

\* faulty variant of stillInSameState: two entries are the same when their
\* content is the same
stillInSameStateByContent(newStateBehavior, stateBehavior) ==
  /\ EntryOf(D, newStateBehavior).onEnter = EntryOf(D, stateBehavior).onEnter
  /\ EntryOf(D, newStateBehavior).handling = EntryOf(D, stateBehavior).handling

\* const stillInSameState = newStateBehavior === stateBehavior
stillInSameState(newStateBehavior, stateBehavior) == newStateBehavior = stateBehavior

HasHook(h, which) ==
  /\ h # Undefined
  /\ IF which = "onUpdate" THEN hookObjs[h].onUpdate.defined
     ELSE hookObjs[h].onExit.defined

\* const currentHooks = hookGet(), then the onUpdate or the onExit call
FireHooks ==
  /\ ~Idle0
  /\ Top.pc = "committed"
  /\ LET i == Top.inst
         currentHooks == hooks[i]
         f == [Top EXCEPT !.currentHooks = currentHooks]
     IN IF stillInSameState(Top.newStateBehavior, Top.stateBehavior)
        THEN IF HasHook(currentHooks, "onUpdate")
             THEN /\ stack' = SetTop([f EXCEPT !.pc = "onUpdate",
                                        !.todo = hookObjs[currentHooks].onUpdate.nested])
                  /\ log' = Append(log,
                       [BlankEv EXCEPT !.ev = "onUpdate", !.inst = i, !.depth = Depth,
                                       !.hook = currentHooks, !.prev = Top.state,
                                       !.val = Top.newState, !.cid = Top.cid])
             ELSE /\ stack' = Pop
                  /\ log' = Append(log, ReturnEv(Top, "return", hooks[i]))
        ELSE IF HasHook(currentHooks, "onExit")
             THEN /\ stack' = SetTop([f EXCEPT !.pc = "onExit",
                                        !.todo = hookObjs[currentHooks].onExit.nested])
                  /\ log' = Append(log,
                       [BlankEv EXCEPT !.ev = "onExit", !.inst = i, !.depth = Depth,
                                       !.hook = currentHooks, !.prev = Top.state,
                                       !.cid = Top.cid])
             ELSE /\ stack' = SetTop([f EXCEPT !.pc = "exited"])
                  /\ log' = log
  /\ UNCHANGED << created, value, hooks, hookObjs, nSends >>
  /\ Static

\* faulty variant of UpdateReturn: after onUpdate the send goes on to the
\* onEnter of the entry
UpdateReturnFallsThrough ==
  /\ ~Idle0
  /\ Top.pc = "onUpdate"
  /\ Top.todo = << >>
  /\ stack' = SetTop([Top EXCEPT !.pc = "exited"])
  /\ UNCHANGED << created, value, hooks, hookObjs, log, nSends >>
  /\ Static

\* currentHooks.onUpdate(state, newState) returns, and so does send
UpdateReturn ==
  /\ ~Idle0
  /\ Top.pc = "onUpdate"
  /\ Top.todo = << >>
  /\ stack' = Pop
  /\ log' = Append(log, ReturnEv(Top, "return", hooks[Top.inst]))
  /\ UNCHANGED << created, value, hooks, hookObjs, nSends >>
  /\ Static

\* currentHooks.onExit(state) returns
ExitReturn ==
  /\ ~Idle0
  /\ Top.pc = "onExit"
  /\ Top.todo = << >>
  /\ stack' = SetTop([Top EXCEPT !.pc = "exited"])
  /\ UNCHANGED << created, value, hooks, hookObjs, log, nSends >>
  /\ Static

\* the call of newStateBehavior.onEnter, or hookSet(undefined) without one
EnterNew ==
  /\ ~Idle0
  /\ Top.pc = "exited"
  /\ LET i == Top.inst
         onEnter == EntryOf(D, Top.newStateBehavior).onEnter
     IN IF onEnter.defined
        THEN /\ stack' = SetTop([Top EXCEPT !.pc = "onEnter", !.todo = onEnter.nested])
             /\ log' = Append(log,
                  [BlankEv EXCEPT !.ev = "onEnter", !.inst = i, !.depth = Depth,
                                  !.entry = Top.newStateBehavior, !.val = Top.newState,
                                  !.cid = Top.cid])
             /\ hooks' = hooks
             /\ timers' = timers \cup TimersOf(i, onEnter.later, Top.cid)
        ELSE /\ hooks' = hookSet(i, Undefined)
             /\ stack' = Pop
             /\ log' = Append(log, ReturnEv(Top, "return", hooks'[i]))
             /\ timers' = timers
  /\ UNCHANGED << created, value, hookObjs, nSends, d, descriptionOf, stage,
                  messageId,
                  descriptors, reverseMessageMap, followers, cbId, asObservable >>

\* faulty variant of EnterReturn: an onEnter that returns nothing leaves the
\* stored hook set as it is
EnterReturnKeepsHooks ==
  /\ ~Idle0
  /\ Top.kind = "send"
  /\ Top.pc = "onEnter"
  /\ Top.todo = << >>
  /\ LET i == Top.inst
         result == EntryOf(D, Top.newStateBehavior).onEnter.result
     IN IF result.returns = "void"
        THEN /\ hookObjs' = hookObjs
             /\ hooks' = hooks
        ELSE /\ hookObjs' = Append(hookObjs,
                              NewHookObj(i, Top.newStateBehavior, result, Top.cid))
             /\ hooks' = hookSet(i, Len(hookObjs) + 1)
  /\ stack' = Pop
  /\ log' = Append(log, ReturnEv(Top, "return", hooks'[Top.inst]))
  /\ UNCHANGED << created, value, nSends >>
  /\ Static

\* const newHook = newStateBehavior.onEnter(self, newState); hookSet(newHook || {})
EnterReturn ==
  /\ ~Idle0
  /\ Top.kind = "send"
  /\ Top.pc = "onEnter"
  /\ Top.todo = << >>
  /\ LET i == Top.inst
         result == EntryOf(D, Top.newStateBehavior).onEnter.result
     IN /\ hookObjs' = Append(hookObjs,
                         NewHookObj(i, Top.newStateBehavior, result, Top.cid))
        /\ hooks' = hookSet(i, Len(hookObjs) + 1)
  /\ stack' = Pop
  /\ log' = Append(log, ReturnEv(Top, "return", hooks'[Top.inst]))
  /\ UNCHANGED << created, value, nSends >>
  /\ Static

(***************************************************************************)
(* Observable Adapter                                                      *)
(***************************************************************************)

\* FSMDescription.observable(hook)
observable ==
  /\ stage = "FSMDescription"
  /\ stage' = "FSMDescriptionWithObservable"
  /\ BuilderFrame

\* InternalObserver.onValue, called for Instance i: the callback is stored
\* under the next id
onValue(o, i, cbs) ==
  [k \in cbId[o] .. (cbId[o] + Len(cbs) - 1) |->
     [cb |-> cbs[k - cbId[o] + 1], owner |-> i]] @@ followers[o]

DeliverEv(i, depth, key, f, state, cid) ==
  [BlankEv EXCEPT !.ev = "deliver", !.inst = i, !.depth = depth,
                  !.name = f.cb.name, !.entry = key, !.arg = f.owner,
                  !.val = state, !.cid = cid]

\* FSMDescriptionWithObservable.create: the observer, the call of the
\* factory, the push of the initial value, then the constructor
CreateObservable(i, input) ==
  /\ stage = "FSMDescriptionWithObservable"
  /\ Idle0
  /\ created[i] = "no"
  /\ \A j \in DOMAIN created : j < i => created[j] # "no"
  /\ LET o == ObserverOf(i)
         hook == D.observable
         attached == onValue(o, i, hook.attach)
         n == cbId[o] + Len(hook.attach)
         keys == KeysOf(attached, n)
         initialValue == D.factory[input]
         cid == NumCommits + 1
         called == [BlankEv EXCEPT !.ev = "observableHook", !.inst = i,
                                   !.key = hook.returns, !.arg = o, !.cid = cid]
         inside == [k \in 1 .. Len(hook.attach) |->
                      [BlankEv EXCEPT !.ev = "onValue", !.inst = i, !.depth = 1,
                                      !.name = hook.attach[k].name,
                                      !.entry = cbId[o] + k - 1, !.arg = o,
                                      !.cid = cid]]
         pushed == [k \in 1 .. Len(keys) |->
                      DeliverEv(i, 1, keys[k], attached[keys[k]], initialValue, cid)]
     IN /\ followers' = [followers EXCEPT ![o] = attached]
        /\ cbId' = [cbId EXCEPT ![o] = n]
        /\ asObservable' = [asObservable EXCEPT ![i] = [kind |-> hook.returns, of |-> o]]
        /\ FSMInstanceNew(i, input, initialValue, << called >> \o inside \o pushed)
  /\ UNCHANGED << d, stage, messageId, descriptors, reverseMessageMap, hooks,
                  hookObjs, nSends >>

\* faulty variant of OnValue: the new listener is called at once with the
\* current value, as a replaying subject would
OnValueReplays(i, cb) ==
  /\ Idle0
  /\ created[i] = "yes"
  /\ asObservable[i].kind = "observer"
  /\ nSends < MaxSends
  /\ LET o == asObservable[i].of
         cids == {log[j].cid : j \in {j \in 1 .. Len(log) :
                                        log[j].ev = "commit" /\ log[j].inst = i}}
         last == CHOOSE c \in cids : \A m \in cids : m <= c
     IN /\ cbId[o] < MaxListeners
        /\ followers' = [followers EXCEPT ![o] = onValue(o, i, << cb >>)]
        /\ cbId' = [cbId EXCEPT ![o] = cbId[o] + 1]
        /\ log' = log \o << [BlankEv EXCEPT !.ev = "onValue", !.inst = i,
                                            !.name = cb.name, !.entry = cbId[o],
                                            !.arg = o],
                            DeliverEv(i, 1, cbId[o], [cb |-> cb, owner |-> i],
                                      value[i], last) >>
  /\ nSends' = nSends + 1
  /\ UNCHANGED << d, descriptionOf, stage, messageId, descriptors, reverseMessageMap, created,
                  value, hooks, hookObjs, stack, asObservable, timers >>

\* the caller invokes instance.asObservable.onValue(cb)
OnValue(i, cb) ==
  /\ Idle0
  /\ created[i] = "yes"
  /\ asObservable[i].kind = "observer"
  /\ nSends < MaxSends
  /\ LET o == asObservable[i].of
     IN /\ cbId[o] < MaxListeners
        /\ followers' = [followers EXCEPT ![o] = onValue(o, i, << cb >>)]
        /\ cbId' = [cbId EXCEPT ![o] = cbId[o] + 1]
        /\ log' = Append(log, [BlankEv EXCEPT !.ev = "onValue", !.inst = i,
                                              !.name = cb.name, !.entry = cbId[o],
                                              !.arg = o])
  /\ nSends' = nSends + 1
  /\ UNCHANGED << d, descriptionOf, stage, messageId, descriptors, reverseMessageMap, created,
                  value, hooks, hookObjs, stack, asObservable, timers >>

\* delete this.followers[callbackId], for each id of keys
Deleted(f, keys) == [k \in (DOMAIN f) \ keys |-> f[k]]

UnsubscribeEv(i, depth, o, key) ==
  [BlankEv EXCEPT !.ev = "unsubscribe", !.inst = i, !.depth = depth,
                  !.entry = key, !.arg = o]

\* the caller invokes unsubscribe() of a subscription it holds
Unsubscribe(i, key) ==
  /\ Idle0
  /\ created[i] = "yes"
  /\ asObservable[i].kind = "observer"
  /\ nSends < MaxSends
  /\ LET o == asObservable[i].of
     IN /\ key \in DOMAIN followers[o]
        /\ followers' = [followers EXCEPT ![o] = Deleted(followers[o], {key})]
        /\ log' = Append(log, UnsubscribeEv(i, 0, o, key))
  /\ nSends' = nSends + 1
  /\ UNCHANGED << d, descriptionOf, stage, messageId, descriptors, reverseMessageMap, created,
                  value, hooks, hookObjs, stack, cbId, asObservable, timers >>

\* one round of the forEach of InternalObserver.next: this.followers[cbId](t).
\* A listener that does not react returns at once; the loop ends with the
\* last id.
ObserverNext ==
  /\ ~Idle0
  /\ Top.pc = "next"
  /\ LET i == Top.inst
         o == ObserverOf(i)
         key == Head(Top.todo)
         rest == [Top EXCEPT !.todo = Tail(Top.todo)]
     IN IF key \notin DOMAIN followers[o]
        THEN /\ Throw("followers")
             /\ UNCHANGED << followers, cbId >>
        ELSE LET f == followers[o][key]
                 reacts == f.cb.on = Top.newState.type
                 gone == f.cb.detach \cap DOMAIN followers[o]
                 ended == KeysOf(Deleted(followers[o], (DOMAIN followers[o]) \ gone),
                                 cbId[o])
                 more == Attaches(f.cb)
                 added == [k \in cbId[o] .. (cbId[o] + Len(more) - 1) |->
                             [cb |-> more[k - cbId[o] + 1], owner |-> f.owner]]
             IN /\ log' = log \o << DeliverEv(i, Depth, key, f, Top.newState, Top.cid) >>
                           \o (IF reacts
                               THEN [k \in 1 .. Len(ended) |->
                                       UnsubscribeEv(i, Depth + 1, o, ended[k])]
                                    \o [k \in 1 .. Len(more) |->
                                          [BlankEv EXCEPT !.ev = "onValue", !.inst = i,
                                                          !.depth = Depth + 1,
                                                          !.name = more[k].name,
                                                          !.entry = cbId[o] + k - 1,
                                                          !.arg = o]]
                               ELSE << >>)
                /\ followers' = IF reacts
                                THEN [followers EXCEPT ![o] =
                                        added @@ Deleted(followers[o], gone)]
                                ELSE followers
                /\ cbId' = IF reacts THEN [cbId EXCEPT ![o] = @ + Len(more)] ELSE cbId
                /\ stack' = IF reacts
                            THEN Append(SetTop(rest),
                                   [Frame("listener", i, f.cb.name, 0, 0) EXCEPT
                                      !.pc = "listener", !.todo = f.cb.nested,
                                      !.newState = Top.newState, !.cid = Top.cid])
                            ELSE IF rest.todo = << >> THEN Pop ELSE SetTop(rest)
                /\ UNCHANGED << created, value, hooks, hookObjs >>
  /\ UNCHANGED << d, descriptionOf, stage, messageId, descriptors, reverseMessageMap, nSends,
                  asObservable, timers >>

\* the listener returns; the loop ends when it was the last one
ListenerReturn ==
  /\ ~Idle0
  /\ Top.pc = "listener"
  /\ Top.todo = << >>
  /\ stack' = IF stack[Depth - 1].todo = << >>
              THEN SubSeq(stack, 1, Depth - 2) ELSE Pop
  /\ UNCHANGED << created, value, hooks, hookObjs, log, nSends >>
  /\ Static

Next ==
  \/ FSMMessageCreate
  \/ States
  \/ WithInitialState
  \/ Messages
  \/ Behaviors
  \/ \E i \in DOMAIN created, input \in Inputs : Create(i, input)
  \/ ConstructorReturn
  \/ \E i \in DOMAIN created, name \in {"play", "stop", "pause", "seek"},
        payload \in 0 .. MaxTime :
       /\ (name # "seek" => payload = 0)
       /\ Send(i, name, payload)
  \/ NestedSend
  \/ SendStart
  \/ TransitionReturn
  \/ FireHooks
  \/ UpdateReturn
  \/ ExitReturn
  \/ EnterNew
  \/ EnterReturn

Spec == Init /\ [][Next]_vars

(***************************************************************************)
(* Observable Instances: two of them, created from one observable          *)
(* Description                                                             *)
(***************************************************************************)
Pair == {1, 2}

(***************************************************************************)
(* Instances whose onEnter starts timers                                   *)
(***************************************************************************)
AsyncInit ==
  /\ d = "Async"
  /\ Start(Pair)

AsyncNext ==
  \/ FSMMessageCreate
  \/ States
  \/ WithInitialState
  \/ Messages
  \/ Behaviors
  \/ \E i \in DOMAIN created, input \in Inputs : Create(i, input)
  \/ ConstructorReturn
  \/ \E i \in DOMAIN created, name \in {"play", "stop", "pause", "seek"},
        payload \in 0 .. MaxTime :
       /\ (name # "seek" => payload = 0)
       /\ Send(i, name, payload)
  \/ TimerFires
  \/ SendStart
  \/ TransitionReturn
  \/ FireHooks
  \/ ExitReturn
  \/ EnterNew
  \/ EnterReturn

AsyncSpec == AsyncInit /\ [][AsyncNext]_vars

ObsInit ==
  /\ d \in ObsDescNames
  /\ Start(Pair)

ObsNext ==
  \/ FSMMessageCreate
  \/ States
  \/ WithInitialState
  \/ Messages
  \/ Behaviors
  \/ observable
  \/ \E i \in DOMAIN created, input \in Inputs : CreateObservable(i, input)
  \/ ConstructorReturn
  \/ \E i \in DOMAIN created, name \in {"play", "stop", "pause", "seek"},
        payload \in 0 .. MaxTime :
       /\ (name # "seek" => payload = 0)
       /\ Send(i, name, payload)
  \/ \E i \in DOMAIN created, cb \in Callbacks : OnValue(i, cb)
  \/ \E i \in DOMAIN created, key \in 0 .. (MaxListeners - 1) : Unsubscribe(i, key)
  \/ ObserverNext
  \/ ListenerReturn
  \/ NestedSend
  \/ SendStart
  \/ TransitionReturn
  \/ FireHooks
  \/ UpdateReturn
  \/ ExitReturn
  \/ EnterNew
  \/ EnterReturn

ObsSpec == ObsInit /\ [][ObsNext]_vars

(***************************************************************************)
(* A caller that sends a fixed sequence of messages to each Instance       *)
(***************************************************************************)
Script ==
  << << "play", 0 >>, << "seek", 1 >>, << "seek", 2 >>, << "pause", 0 >>,
     << "play", 0 >> >>

\* the number of sends the caller has made to Instance i
SentTo(i) ==
  Cardinality({c \in 1 .. Len(log) :
                 log[c].ev = "call" /\ log[c].depth = 1 /\ log[c].inst = i})

\* the caller makes its next send to Instance i
ScriptedSend(i) ==
  /\ SentTo(i) < Len(Script)
  /\ Invoke(i, Script[SentTo(i) + 1][1], Script[SentTo(i) + 1][2])

ExampleDescNames == {"Example", "VideoPlayer"}

ExampleInit ==
  /\ d \in ExampleDescNames
  /\ Start(Pair)

ExampleNext ==
  \/ FSMMessageCreate
  \/ States
  \/ WithInitialState
  \/ Messages
  \/ Behaviors
  \/ \E i \in DOMAIN created, input \in Inputs : Create(i, input)
  \/ \E i \in DOMAIN created : ScriptedSend(i)
  \/ SendStart
  \/ TransitionReturn
  \/ FireHooks
  \/ UpdateReturn
  \/ ExitReturn
  \/ EnterNew
  \/ EnterReturn

ExampleSpec == ExampleInit /\ [][ExampleNext]_vars

(***************************************************************************)
(* One Instance of a Description with an unusual lifecycle                 *)
(***************************************************************************)
HookDescNames ==
  {"Unresolved", "SharedEntry", "VoidLifecycle", "InitialSend", "Contract"}

Solo == {1}

HooksInit ==
  /\ d \in HookDescNames
  /\ Start(Solo)

HooksSpec == HooksInit /\ [][Next]_vars

(***************************************************************************)
(* One Instance, with the calls in progress run to their end: send and the *)
(* constructor are synchronous code, which goes on until it returns or     *)
(* raises                                                                  *)
(***************************************************************************)
Running ==
  \/ SendStart
  \/ TransitionReturn
  \/ FireHooks
  \/ UpdateReturn
  \/ ExitReturn
  \/ EnterNew
  \/ EnterReturn
  \/ NestedSend
  \/ ConstructorReturn

HooksFairSpec == HooksInit /\ [][Next]_vars /\ WF_vars(Running)

(***************************************************************************)
(* One Instance of each Description of the dispatcher                      *)
(***************************************************************************)
SoloInit ==
  /\ d \in DescNames
  /\ Start(Solo)

SoloSpec == SoloInit /\ [][Next]_vars

(***************************************************************************)
(* One Instance of a Description whose registries are unusual              *)
(***************************************************************************)
RegistryDescNames == {"Overlap", "Alias", "LateMessage"}

RegistryInit ==
  /\ d \in RegistryDescNames
  /\ Start(Solo)

RegistrySpec == RegistryInit /\ [][Next]_vars

(***************************************************************************)
(* One observable Instance whose hooks raise                               *)
(***************************************************************************)
RaiseInit ==
  /\ d = "RaisingHooks"
  /\ Start(Solo)

RaiseSpec == RaiseInit /\ [][ObsNext]_vars

(***************************************************************************)
(* An observable Instance whose listeners are attached by the factory, by  *)
(* the caller and by a listener during a delivery                          *)
(***************************************************************************)
AttachInit ==
  /\ d = "Attaching"
  /\ Start(Solo)

AttachSpec == AttachInit /\ [][ObsNext]_vars

(***************************************************************************)
(* Two Instances created from one Description                              *)
(***************************************************************************)
PairDescNames == {"VideoPlayer", "Wildcard", "NestedHooks"}

PairInit ==
  /\ d \in PairDescNames
  /\ Start(Pair)

PairSpec == PairInit /\ [][Next]_vars

(***************************************************************************)
(* Two Descriptions made from one messages-stage, an Instance of each      *)
(***************************************************************************)
SkeletonInit ==
  /\ d \in SkeletonDescNames
  /\ Start(Pair)

SkeletonNext ==
  \/ Next
  \/ BehaviorsAgain

SkeletonSpec == SkeletonInit /\ [][SkeletonNext]_vars

TypeOK ==
  /\ d \in DescNames \cup ObsDescNames \cup ExampleDescNames \cup HookDescNames
          \cup RegistryDescNames \cup {"RaisingHooks", "Attaching"} \cup SkeletonDescNames
          \cup {"Async"}
  /\ Depth <= 8
  /\ nSends <= MaxSends + 2 * Len(Script)


(***************************************************************************)
(* Reading the log                                                         *)
(***************************************************************************)
LogIdx == 1 .. Len(log)
IsCommit(j) == log[j].ev = "commit"

\* the commit of the same Instance that precedes commit j, 0 when j is the first
PrevCommit(j) ==
  LET before == {k \in 1 .. (j - 1) : IsCommit(k) /\ log[k].inst = log[j].inst}
  IN IF before = {} THEN 0 ELSE CHOOSE k \in before : \A m \in before : m <= k

\* commit j is the first of a residency: a maximal run of commits of one entry
StartsRun(j) == PrevCommit(j) = 0 \/ log[PrevCommit(j)].entry # log[j].entry

\* the first commit of the residency commit j belongs to
RECURSIVE RunStartOf(_)
RunStartOf(j) == IF StartsRun(j) THEN j ELSE RunStartOf(PrevCommit(j))

EventsOf(c, what) == {k \in LogIdx : log[k].ev = what /\ log[k].cid = c}

Declared(ref) == ref # Undefined /\ EntryOf(D, ref).onEnter.defined

EntryRefs == {D.behaviors[k].ref : k \in DOMAIN D.behaviors}

\* control is back at the caller: no send and no constructor is running
Quiescent == Idle0


(***************************************************************************)
(* Residency counting                                                      *)
(***************************************************************************)

\* C1: once control is back at the caller, the onEnter of every behavior
\* entry has been called exactly once per residency of that entry (the
\* initial value opens the first residency), never for an entry without
\* onEnter, and every onEnter call belongs to a commit that opens a residency.
C1_EnterOncePerResidency ==
  Quiescent =>
    /\ \A e \in EntryRefs :
         Cardinality({k \in LogIdx : log[k].ev = "onEnter" /\ log[k].entry = e})
           = IF Declared(e)
             THEN Cardinality({j \in LogIdx :
                                 IsCommit(j) /\ log[j].entry = e /\ StartsRun(j)})
             ELSE 0
    /\ \A k \in LogIdx : log[k].ev = "onEnter" =>
         \E j \in LogIdx : IsCommit(j) /\ log[j].cid = log[k].cid /\ StartsRun(j)

\* the hook sets returned by the onEnter call made for commit j
HookSetsOf(j) == {h \in 1 .. Len(hookObjs) : hookObjs[h].cid = log[j].cid}

\* C2: once control is back at the caller, for every commit that leaves a
\* residency, the onExit of the hook set of the residency left (the one its
\* onEnter returned), if present, has been called exactly once, for that
\* commit and before the onEnter called for that commit; and no onExit is
\* called for a commit that stays in the same entry.
C2_ExitOncePerResidency ==
  Quiescent =>
    /\ \A j \in LogIdx :
         (IsCommit(j) /\ PrevCommit(j) # 0 /\ StartsRun(j)) =>
           \A h \in HookSetsOf(RunStartOf(PrevCommit(j))) :
             hookObjs[h].onExit.defined =>
               /\ Cardinality({k \in LogIdx : log[k].ev = "onExit" /\ log[k].hook = h}) = 1
               /\ \E k \in EventsOf(log[j].cid, "onExit") :
                    /\ log[k].hook = h
                    /\ \A m \in EventsOf(log[j].cid, "onEnter") : k < m
    /\ \A j \in LogIdx :
         (IsCommit(j) /\ ~StartsRun(j)) => EventsOf(log[j].cid, "onExit") = {}

\* C3: once control is back at the caller, every commit that stays in the
\* entry of the value it replaces has called the onUpdate of the hook set
\* current at that commit exactly once, with (replaced value, new value),
\* when that hook set has one, and has called neither onExit nor onEnter.
C3_UpdateOnStay ==
  Quiescent =>
    \A j \in LogIdx :
      (IsCommit(j) /\ ~StartsRun(j)) =>
        /\ EventsOf(log[j].cid, "onExit") = {}
        /\ EventsOf(log[j].cid, "onEnter") = {}
        /\ IF HasHook(log[j].hook, "onUpdate")
           THEN /\ Cardinality(EventsOf(log[j].cid, "onUpdate")) = 1
                /\ \A k \in EventsOf(log[j].cid, "onUpdate") :
                     /\ log[k].hook = log[j].hook
                     /\ log[k].prev = log[j].prev
                     /\ log[k].val = log[j].val
           ELSE EventsOf(log[j].cid, "onUpdate") = {}


(***************************************************************************)
(* Unhandled messages, commit, handler lookup                              *)
(***************************************************************************)

\* the call event of the send that logged event k
MatchingCall(k) ==
  LET calls == {c \in 1 .. (k - 1) : log[c].ev = "call" /\ log[c].depth = log[k].depth}
  IN CHOOSE c \in calls : \A m \in calls : m <= c

\* the entry of the value current at call event c has no handler for the
\* message, named or wildcard
NoHandlerAt(c) ==
  LET ref == findStateBehavior(D, log[c].val)
      messageKey == reverseMessageMap[DescriptorOf(D, log[c].name)]
  IN /\ ref # Undefined
     /\ messageKey \notin DOMAIN EntryOf(D, ref).handling
     /\ "_" \notin DOMAIN EntryOf(D, ref).handling

\* C4: a send of a message for which the entry of the current value has
\* neither a named nor a wildcard handler emits its diagnostic and returns
\* normally at once: no transition function and no hook is called, and the
\* value and the hook set at the return are those at the call.
C4_UnhandledIsAbsorbed ==
  \A c \in LogIdx :
    (log[c].ev = "call" /\ NoHandlerAt(c) /\ c < Len(log)) =>
      /\ c + 3 <= Len(log)
      /\ log[c + 1].ev = "warn"
      /\ log[c + 2].ev = "warn"
      /\ log[c + 3].ev = "ignored"
      /\ log[c + 3].depth = log[c].depth
      /\ log[c + 3].val = log[c].val
      /\ log[c + 3].hook = log[c].hook
      /\ c + 3 = Len(log) =>
           /\ value[log[c].inst] = log[c].val
           /\ hooks[log[c].inst] = log[c].hook
           /\ Depth = log[c].depth - 1

C4_Witness ==
  \E c \in LogIdx :
    /\ log[c].ev = "call" /\ NoHandlerAt(c)
    /\ log[c].hook # Undefined
    /\ c + 3 = Len(log)
    /\ log[c + 3].ev = "ignored"

\* the result of the transition function the top frame has called
TransitionResult(f) ==
  HandlerResult(EntryOf(D, f.stateBehavior).handling[f.handlerKey], f.state, f.payload)

\* C5: when the transition function returns a value that resolves to a
\* declared state with an entry, the step that follows commits it: value()
\* is exactly that result, whatever the previous value was.
C5_CommitUnconditional ==
  [][(/\ ~Idle0
      /\ Top.pc = "transition"
      /\ Top.todo = << >>
      /\ findStateBehavior(D, TransitionResult(Top)) # Undefined)
     => value'[Top.inst] = TransitionResult(Top)]_vars

\* a commit of a value equal to the one it replaces, and one of the same
\* state with another payload
C5_Witness ==
  /\ \E j \in LogIdx : IsCommit(j) /\ log[j].name # "create" /\ log[j].val = log[j].prev
  /\ \E j \in LogIdx : /\ IsCommit(j) /\ log[j].name # "create"
                       /\ log[j].val # log[j].prev
                       /\ log[j].val.type = log[j].prev.type

\* C6: every transition function that is called is the named handler of the
\* message in the entry of the current state when that entry has one, and
\* the wildcard only when it has none.
C6_NamedBeforeWildcard ==
  \A k \in LogIdx :
    log[k].ev = "transition" =>
      LET handling == EntryOf(D, log[k].entry).handling
      IN /\ log[k].name \in DOMAIN handling => log[k].key = log[k].name
         /\ log[k].key = "_" => log[k].name \notin DOMAIN handling
         /\ log[k].key \in DOMAIN handling

\* in an entry that has both, a named handler was called for its message and
\* the wildcard for another message
C6_Witness ==
  /\ \E k \in LogIdx :
       /\ log[k].ev = "transition" /\ log[k].key = log[k].name
       /\ "_" \in DOMAIN EntryOf(D, log[k].entry).handling
  /\ \E k \in LogIdx :
       /\ log[k].ev = "transition" /\ log[k].key = "_"
       /\ DOMAIN EntryOf(D, log[k].entry).handling # {"_"}


(***************************************************************************)
(* Re-entrancy                                                             *)
(***************************************************************************)
CommitsOf(i) == {j \in LogIdx : IsCommit(j) /\ log[j].inst = i}
LastCommit(i) == CHOOSE j \in CommitsOf(i) : \A m \in CommitsOf(i) : m <= j

\* C7: after a send() of the caller has returned, value() is the latest
\* committed value and the stored hook set is the one the onEnter of the
\* residency of that value returned (none when that onEnter returned none).
C7_HooksOfLatestResidency ==
  (Quiescent /\ nSends > 0) =>
    \A i \in Instances :
      created[i] = "yes" =>
        LET start == RunStartOf(LastCommit(i))
        IN /\ value[i] = log[LastCommit(i)].val
           /\ IF hooks[i] = Undefined
              THEN \A h \in HookSetsOf(start) :
                     ~hookObjs[h].onUpdate.defined /\ ~hookObjs[h].onExit.defined
              ELSE hooks[i] \in HookSetsOf(start)

Ends == {"return", "ignored", "raise"}

DeclaredStates == {D.states[k].name : k \in 1 .. Len(D.states)}

LacksEntry(v) ==
  findStateKey(D, v) # UndefinedKey /\ findStateKey(D, v) \notin DOMAIN D.behaviors

\* C9 as amended: behaviors() returns a Description also for a map that lacks
\* an entry; create() on it succeeds, calling no hook when the initial state
\* is the one without entry; the failure comes at send(): a send raises at
\* once, value and hook set untouched, when the current value resolves to a
\* state without entry, and raises without committing when its transition
\* function returns a value of such a state.
DeferredToSend ==
  /\ \A c \in LogIdx :
       (log[c].ev = "call" /\ LacksEntry(log[c].val) /\ c < Len(log)) =>
         /\ log[c + 1].ev = "raise"
         /\ log[c + 1].val = log[c].val
         /\ log[c + 1].hook = log[c].hook
         /\ c + 1 = Len(log) => (Idle0 /\ value[log[c].inst] = log[c].val)
  /\ \A j \in LogIdx :
       IsCommit(j) =>
         IF log[j].name = "create"
         THEN LacksEntry(log[j].val) =>
                /\ EventsOf(log[j].cid, "onEnter") = {}
                /\ created[log[j].inst] = "yes"
         ELSE ~LacksEntry(log[j].val)
  /\ \A i \in DOMAIN created : LacksEntry(value[i]) => hooks[i] = Undefined

OwnEvents(k) ==
  {x \in (MatchingCall(k) + 1) .. (k - 1) : log[x].depth = log[k].depth}

\* C10 as stated: when the transition function returns a value no declared
\* state accepts, send raises, no hook was called by it, and value() and the
\* hook set are those from before the call.
C10_RejectedLeavesCallState ==
  \A k \in LogIdx :
    (log[k].ev = "raise" /\ log[k].key = "newState") =>
      /\ \A x \in OwnEvents(k) : log[x].ev = "transition"
      /\ log[k].val = log[MatchingCall(k)].val
      /\ log[k].hook = log[MatchingCall(k)].hook

\* the event that shows value() and the hook set as the transition function
\* of the send that raised at k found them when it returned: the end of its
\* last nested send, or the call itself when it issued none
AtTransitionReturn(k) ==
  IF k = MatchingCall(k) + 2 THEN MatchingCall(k) ELSE k - 1

\* C10 as amended: when the transition function returns a value no declared
\* state accepts, send raises and has itself committed nothing and called no
\* hook: value() and the hook set are those found when the transition
\* function returned, which are those from before the call unless the
\* transition function issued a nested send.
C10_RejectedCommitsNothing ==
  \A k \in LogIdx :
    (log[k].ev = "raise" /\ log[k].key = "newState") =>
      /\ \A x \in OwnEvents(k) : log[x].ev = "transition"
      /\ log[k].val = log[AtTransitionReturn(k)].val
      /\ log[k].hook = log[AtTransitionReturn(k)].hook
      /\ k = Len(log) =>
           /\ Idle0
           /\ value[log[k].inst] = log[k].val
           /\ hooks[log[k].inst] = log[k].hook

\* a send raised on a result no state accepts, while hooks were installed:
\* once without a nested send, once after a nested send had committed
C10_Witness ==
  /\ \E k \in LogIdx :
       /\ log[k].ev = "raise" /\ log[k].key = "newState"
       /\ log[k].hook # Undefined
       /\ k = MatchingCall(k) + 2
  /\ \E k \in LogIdx :
       /\ log[k].ev = "raise" /\ log[k].key = "newState"
       /\ k > MatchingCall(k) + 2

(***************************************************************************)
(* Observable Adapter: what the listeners receive                          *)
(***************************************************************************)
IsEv(k, what) == log[k].ev = what

\* the listeners attached to observer o when event j is logged
AttachedAt(o, j) ==
  {key \in 0 .. (cbId[o] - 1) :
     /\ \E a \in 1 .. (j - 1) :
          IsEv(a, "onValue") /\ log[a].arg = o /\ log[a].entry = key
     /\ ~\E u \in 1 .. (j - 1) :
          IsEv(u, "unsubscribe") /\ log[u].arg = o /\ log[u].entry = key}

\* the listeners the observable factory attached during the create() of
\* commit j
AttachedInFactory(j) ==
  {log[a].entry : a \in {a \in LogIdx : IsEv(a, "onValue") /\ log[a].cid = log[j].cid}}

\* the calls of listener key of Instance i made for commit j
Deliveries(j, key) ==
  {k \in LogIdx : /\ IsEv(k, "deliver") /\ log[k].cid = log[j].cid
                  /\ log[k].arg = log[j].inst /\ log[k].entry = key}

\* C11: once control is back at the caller, every commit of an observable
\* Instance has been pushed exactly once, with the committed value, to every
\* listener attached when it was made (the initial value: to the listeners
\* the factory attached, before any send); each listener has been called in
\* commit order; and nothing was pushed that is not a committed value.
C11_EveryCommitPushedInOrder ==
  Quiescent =>
    /\ \A j \in LogIdx :
         IsCommit(j) =>
           LET at == IF log[j].name = "create" THEN AttachedInFactory(j)
                     ELSE AttachedAt(ObserverOf(log[j].inst), j)
           IN \A key \in at :
                /\ Cardinality(Deliveries(j, key)) = 1
                /\ \A k \in Deliveries(j, key) :
                     /\ log[k].val = log[j].val
                     /\ log[j].name = "create" =>
                          \A c \in 1 .. k :
                            ~(IsEv(c, "call") /\ log[c].inst = log[j].inst)
    /\ \A k1, k2 \in LogIdx :
         (/\ IsEv(k1, "deliver") /\ IsEv(k2, "deliver") /\ k1 < k2
          /\ log[k1].arg = log[k2].arg /\ log[k1].entry = log[k2].entry)
           => log[k1].cid < log[k2].cid
    /\ \A k \in LogIdx :
         IsEv(k, "deliver") =>
           \E j \in LogIdx : /\ IsCommit(j) /\ log[j].cid = log[k].cid
                              /\ log[j].inst = log[k].inst /\ log[j].val = log[k].val

\* the commit whose value delivery k pushes
CommitOf(k) == CHOOSE j \in LogIdx : IsCommit(j) /\ log[j].cid = log[k].cid

\* the calls of the observable factory made for Instance i
FactoryCalls(i) == {k \in LogIdx : IsEv(k, "observableHook") /\ log[k].inst = i}

\* C12: a listener attached to the observer of one Instance is only ever
\* called with values committed by that Instance; the observable factory is
\* called exactly once per create(), before the initial commit, and what it
\* returned is the asObservable handle of the Instance created.
C12_ObservableIsolation ==
  /\ \A k \in LogIdx :
       IsEv(k, "deliver") =>
         /\ log[CommitOf(k)].inst = log[k].arg
         /\ log[CommitOf(k)].val = log[k].val
  /\ \A i \in DOMAIN created :
       IF created[i] = "no" THEN FactoryCalls(i) = {}
       ELSE /\ Cardinality(FactoryCalls(i)) = 1
            /\ \A k \in FactoryCalls(i) :
                 /\ k < CommitOf(k)
                 /\ log[CommitOf(k)].inst = i
                 /\ log[CommitOf(k)].name = "create"
                 /\ asObservable[i].kind = log[k].key
                 /\ asObservable[i].of = log[k].arg

\* delivery k pushes a commit made by a send
PushedBySend(k) == IsEv(k, "deliver") /\ log[CommitOf(k)].name # "create"

\* both Instances exist and sends to them were interleaved: a commit of the
\* first, then one of the second, then one of the first were pushed
C12_Witness ==
  /\ \A i \in DOMAIN created : created[i] = "yes"
  /\ \E k1 \in LogIdx :
       /\ PushedBySend(k1) /\ log[k1].inst = 1
       /\ \E k2 \in (k1 + 1) .. Len(log) :
            /\ PushedBySend(k2) /\ log[k2].inst = 2
            /\ \E k3 \in (k2 + 1) .. Len(log) :
                 PushedBySend(k3) /\ log[k3].inst = 1

(***************************************************************************)
(* Instances of one Description                                            *)
(***************************************************************************)

\* the Instance a step works on: the one of the running frames, or the one
\* the caller turns to (a send, or a create that calls no onEnter); 0 for a
\* step of the builder chain
Acting ==
  IF stack # << >> THEN Top.inst
  ELSE IF stack' # << >> THEN stack'[1].inst
  ELSE IF created' # created
       THEN CHOOSE j \in DOMAIN created : created'[j] # created[j]
  ELSE 0

IsHookCall(e) == e.ev \in {"onUpdate", "onExit"}

\* C13: a step of a send or of a create on one Instance leaves the value,
\* the stored hook set and the construction status of every other Instance
\* as they are; every call it makes is made for that Instance, and the
\* onUpdate / onExit it calls belong to a hook set returned by an onEnter of
\* that Instance.
C13_InstancesArePrivate ==
  [][/\ \A j \in DOMAIN created :
          j # Acting => /\ value'[j] = value[j]
                        /\ hooks'[j] = hooks[j]
                        /\ created'[j] = created[j]
     /\ \A k \in (Len(log) + 1) .. Len(log') :
          /\ log'[k].inst = Acting
          /\ IsHookCall(log'[k]) => hookObjs'[log'[k].hook].inst = Acting]_vars

\* the second Instance has left a state whose hooks it held, while the first
\* one, changed by a send before, holds a hook set and another value
C13_Witness ==
  /\ Idle0
  /\ \A i \in DOMAIN created : created[i] = "yes"
  /\ hooks[1] # Undefined
  /\ value[1] # value[2]
  /\ \E j \in LogIdx :
       /\ IsCommit(j) /\ log[j].inst = 1 /\ log[j].name # "create"
       /\ \E k \in (j + 1) .. Len(log) : log[k].ev = "onExit" /\ log[k].inst = 2

\* the calls made by the caller of an Instance
TopCalls == {c \in LogIdx : log[c].ev = "call" /\ log[c].depth = 1}

\* the event at which the call made at c has returned or raised, 0 if running
EndOf(c) ==
  LET ends == {r \in (c + 1) .. Len(log) :
                 \/ log[r].ev \in Ends /\ log[r].depth = 1
                 \/ log[r].ev = "raise"}
  IN IF ends = {} THEN 0 ELSE CHOOSE r \in ends : \A m \in ends : r <= m

\* a hook set as its holder sees it: the entry whose onEnter returned it and
\* the hooks in it
HookContent(h) ==
  IF h = Undefined THEN << >>
  ELSE << hookObjs[h].entry, hookObjs[h].onUpdate, hookObjs[h].onExit >>

\* an event without the identity of the Instance and of the commit
Shown(e) ==
  [ev |-> e.ev, depth |-> e.depth, name |-> e.name, key |-> e.key,
   entry |-> e.entry, prev |-> e.prev, val |-> e.val, arg |-> e.arg,
   hook |-> HookContent(e.hook)]

\* everything the send called at c did, in order, up to its end, which shows
\* the value and the hook set it left
Dispatch(c) == [k \in 1 .. (EndOf(c) - c) |-> Shown(log[c + k])]

\* what the transition function called for c read of the message
ReadAt(c) == IF log[c + 1].ev = "transition" THEN log[c + 1].arg ELSE 0

SameInputs(c1, c2) ==
  /\ log[c1].val = log[c2].val
  /\ HookContent(log[c1].hook) = HookContent(log[c2].hook)
  /\ log[c1].name = log[c2].name
  /\ ReadAt(c1) = ReadAt(c2)

WarnsOf(r) == {w \in (MatchingCall(r) + 1) .. (r - 1) : log[w].ev = "warn"}

EndsSender(r, k) ==
  \/ log[r].ev \in {"return", "created"} /\ log[r].depth = log[k].depth - 1
  \/ log[r].ev = "raise"

\* C16: a message sent from inside an onEnter is processed only after that
\* onEnter has completed: no onEnter of a state reached through the message
\* is called before the send or the constructor that called the sending
\* onEnter has returned.
C16_EnterSendsDeferred ==
  \A k \in LogIdx :
    (log[k].ev = "call" /\ log[k].key = "onEnter") =>
      \A e \in (k + 1) .. Len(log) :
        (log[e].ev = "onEnter" /\ log[e].depth >= log[k].depth) =>
          \E r \in (k + 1) .. (e - 1) : EndsSender(r, k)

(***************************************************************************)
(* Detaching listeners                                                     *)
(***************************************************************************)

\* the unsubscribe() calls made for listener key of observer o
UnsubscribesOf(o, key) ==
  {u \in LogIdx : IsEv(u, "unsubscribe") /\ log[u].arg = o /\ log[u].entry = key}

\* C17: a listener is never called after its unsubscribe(); and once control
\* is back at the caller, every commit made by a send has been pushed
\* exactly once to every listener that was attached when it was made and
\* whose unsubscribe() was never called, whatever was done to the others.
C17_DetachIsIndependent ==
  /\ \A k \in LogIdx :
       IsEv(k, "deliver") =>
         \A u \in UnsubscribesOf(log[k].arg, log[k].entry) : k < u
  /\ Quiescent =>
       \A j \in LogIdx :
         (IsCommit(j) /\ log[j].name # "create") =>
           \A key \in AttachedAt(ObserverOf(log[j].inst), j) :
             UnsubscribesOf(ObserverOf(log[j].inst), key) = {}
               => Cardinality(Deliveries(j, key)) = 1

(***************************************************************************)
(* Message Registry                                                        *)
(***************************************************************************)

\* ids differ and grow with the order of creation, the counter is ahead of
\* all of them, a message instance carries the id of the descriptor that
\* built it and of no other, the reverse map of a Description gives each id
\* its own name, and every running send works on the id of the descriptor of
\* its message
MessageIdsOK ==
  /\ \A a, b \in DOMAIN descriptors : a < b => descriptors[a] < descriptors[b]
  /\ \A a \in DOMAIN descriptors : descriptors[a] < messageId
  /\ \A a, b \in DOMAIN descriptors, p \in 0 .. MaxTime :
       MessageInstance(a, p)._id = descriptors[b] <=> a = b
  /\ stage \notin {"FSMTyped", "FSMWithStates", "FSMWithStatesInitialized",
                   "FSMMessagesInitialized"}
       => \A n \in MessageNames(D) : reverseMessageMap[DescriptorOf(D, n)] = n
  /\ \A k \in 1 .. Depth :
       stack[k].kind = "send" => stack[k].msg = DescriptorOf(D, stack[k].name)

\* C18: the ids of the descriptors are pairwise different and strictly
\* increasing in the order of the FSMMessage.create() calls; no step changes
\* the id of a descriptor that exists; every message instance carries the id
\* of the descriptor that built it.
C18_MessageIdsUniqueAndStable ==
  /\ []MessageIdsOK
  /\ [][\A a \in DOMAIN descriptors :
          a \in DOMAIN descriptors' /\ descriptors'[a] = descriptors[a]]_vars

\* four descriptors exist, and a send of the last one (seek) issued a send
\* of another one, both running
C18_Witness ==
  /\ Len(descriptors) = 4
  /\ Depth >= 2
  /\ stack[1].kind = "send" /\ stack[1].name = "seek"
  /\ Top.kind = "send" /\ Top.name # "seek"

(***************************************************************************)
(* The player, end to end                                                  *)
(***************************************************************************)

\* the caller has sent the whole Script to Instance i and the last send is over
ScriptDone(i) == Idle0 /\ SentTo(i) = Len(Script)

\* the values Instance i has committed, in order, the initial one first
RECURSIVE CommittedFrom(_, _)
CommittedFrom(i, j) ==
  IF j > Len(log) THEN << >>
  ELSE IF IsCommit(j) /\ log[j].inst = i
       THEN << log[j].val >> \o CommittedFrom(i, j + 1)
       ELSE CommittedFrom(i, j + 1)

\* the Description has a transition for play in paused
PlayResumes == "play" \in DOMAIN D.behaviors["paused"].handling

\* C19 as stated: after play, seek(1), seek(2), pause, play the value is
\* playing(0), on every Description that has the three transitions.
C19_ScriptEndsPlaying ==
  \A i \in DOMAIN created : ScriptDone(i) => value[i] = Playing(0)

\* C19 as amended: play, seek(1), seek(2), pause commit playing(0),
\* playing(1), playing(2), paused(2); the final play commits playing(0) when
\* paused has a transition for play that yields playing(0); with the three
\* transitions alone it is unhandled and the value stays paused(2).
C19_ScriptByTransitions ==
  \A i \in DOMAIN created :
    ScriptDone(i) =>
      LET upToPause == << Idle, Playing(0), Playing(1), Playing(2), Paused(2) >>
      IN IF PlayResumes
         THEN /\ CommittedFrom(i, 1) = upToPause \o << Playing(0) >>
              /\ value[i] = Playing(0)
         ELSE /\ CommittedFrom(i, 1) = upToPause
              /\ value[i] = Paused(2)
              /\ \E w \in LogIdx : /\ log[w].ev = "warn" /\ log[w].inst = i
                                    /\ log[w].key = "paused" /\ log[w].name = "play"

\* the machine with the three transitions alone has taken the whole Script,
\* on both Instances
C19_Witness ==
  /\ d = "Example"
  /\ \A i \in DOMAIN created : ScriptDone(i)

(***************************************************************************)
(* Sends that arrive from timers                                           *)
(***************************************************************************)
TimerCalls == {c \in LogIdx : log[c].ev = "call" /\ log[c].key = "timer"}

\* the commit during which the timer of call c was started
StartedBy(c) == CHOOSE j \in LogIdx : IsCommit(j) /\ log[j].cid = log[c].cid

\* C20: a send made by a timer starts when no other call is running and is
\* over before the next call of a timer or of the caller starts; it is
\* dispatched against the value the Instance holds when it arrives, that is
\* the value committed last before it, which its transition function gets
\* or its diagnostics name; and whenever no call is running, value() is the
\* value committed last.
C20_TimerSendsSerial ==
  /\ \A c \in TimerCalls :
       /\ log[c].depth = 1
       /\ \A c2 \in {x \in TopCalls : x > c} : EndOf(c) # 0 /\ EndOf(c) < c2
       /\ \A c0 \in {x \in TopCalls : x < c} : EndOf(c0) # 0 /\ EndOf(c0) < c
       /\ LET before == {j \in 1 .. (c - 1) : IsCommit(j) /\ log[j].inst = log[c].inst}
              latest == CHOOSE j \in before : \A m \in before : m <= j
          IN log[c].val = log[latest].val
       /\ c < Len(log) =>
            \/ log[c + 1].ev = "transition" /\ log[c + 1].prev = log[c].val
            \/ /\ log[c + 1].ev = "warn"
               /\ log[c + 1].key = findStateKey(D, log[c].val)
               /\ log[c + 2].val = log[c].val
  /\ Idle0 =>
       \A i \in DOMAIN created :
         created[i] = "yes" => value[i] = log[LastCommit(i)].val

\* a timer started by the onEnter of idle has fired after the Instance had
\* gone on to playing, and another one has fired in idle and made the
\* Instance play; both sends are over
C20_Witness ==
  /\ Idle0
  /\ \E c \in TimerCalls :
       /\ log[StartedBy(c)].val = Idle
       /\ log[c].val = Playing(0)
       /\ log[c + 1].ev = "warn"
  /\ \E c \in TimerCalls :
       /\ log[c].val = Idle
       /\ log[c + 1].ev = "transition"
       /\ log[c + 2].ev = "commit" /\ log[c + 2].val = Playing(0)

(***************************************************************************)
(* A current value that no declared state accepts                          *)
(***************************************************************************)

\* no declared state predicate accepts v
Unaccepted(v) == \A k \in 1 .. Len(D.states) : v.type \notin D.states[k].accepts

\* the send calls whose Instance held, at the call, a value no state accepts
UnacceptedCalls == {c \in LogIdx : log[c].ev = "call" /\ Unaccepted(log[c].val)}

\* C21: a send that finds a current value accepted by no declared state
\* predicate raises to its caller as its first step, so before any
\* transition function, hook or commit, with value() and the hook set as
\* they were at the call; and the Instance still holds them afterwards.
C21_UnacceptedValueRaises ==
  /\ \A c \in UnacceptedCalls :
       c < Len(log) =>
         /\ log[c + 1].ev = "raise"
         /\ log[c + 1].key = "state"
         /\ log[c + 1].depth = log[c].depth
         /\ log[c + 1].inst = log[c].inst
         /\ log[c + 1].val = log[c].val
         /\ log[c + 1].hook = log[c].hook
  /\ \A c \in UnacceptedCalls :
       (c + 1 = Len(log)) =>
         /\ value[log[c].inst] = log[c].val
         /\ hooks[log[c].inst] = log[c].hook

\* two sends to an Instance created with a value no state accepts have raised
C21_Witness ==
  /\ Idle0
  /\ \E c1, c2 \in UnacceptedCalls :
       /\ c1 < c2
       /\ log[c1 + 1].ev = "raise"
       /\ c2 < Len(log) /\ log[c2 + 1].ev = "raise"
       /\ log[c2].val = Bogus

(***************************************************************************)
(* Residency by reference                                                  *)
(***************************************************************************)

\* the commits made by a send that moved the Instance from one declared
\* state name to another one, both with an entry
NameChanges ==
  {j \in LogIdx :
     /\ IsCommit(j) /\ log[j].name # "create"
     /\ findStateKey(D, log[j].prev) # findStateKey(D, log[j].val)
     /\ findStateKey(D, log[j].prev) \in DOMAIN D.behaviors
     /\ findStateKey(D, log[j].val) \in DOMAIN D.behaviors}

\* the entry objects under the two state names of commit j
FromEntry(j) == D.behaviors[findStateKey(D, log[j].prev)]
ToEntry(j) == D.behaviors[findStateKey(D, log[j].val)]

\* two entries with the same onEnter and the same handling
SameContent(a, b) == a.onEnter = b.onEnter /\ a.handling = b.handling

\* C22: residency is decided by the identity of the behavior entry object.
\* A transition between two state names mapped to the very same entry object
\* calls onUpdate of the hook set (when it has one) and neither onExit nor
\* onEnter; a transition between two names mapped to distinct objects, also
\* objects of identical content, calls onExit of the hook set (when it has
\* one), then onEnter of the new entry (when it declares one), and no
\* onUpdate.
C22_ResidencyByReference ==
  Quiescent =>
    \A j \in NameChanges :
      LET c == log[j].cid
      IN IF FromEntry(j).ref = ToEntry(j).ref
         THEN /\ EventsOf(c, "onExit") = {}
              /\ EventsOf(c, "onEnter") = {}
              /\ Cardinality(EventsOf(c, "onUpdate")) =
                   IF HasHook(log[j].hook, "onUpdate") THEN 1 ELSE 0
         ELSE /\ EventsOf(c, "onUpdate") = {}
              /\ Cardinality(EventsOf(c, "onExit")) =
                   IF HasHook(log[j].hook, "onExit") THEN 1 ELSE 0
              /\ Cardinality(EventsOf(c, "onEnter")) =
                   IF ToEntry(j).onEnter.defined THEN 1 ELSE 0
              /\ \A x \in EventsOf(c, "onExit") :
                   \A e \in EventsOf(c, "onEnter") : j < x /\ x < e

\* one Instance has gone between two names of one entry object with an
\* onUpdate call, and between two entry objects of identical content with an
\* onExit and an onEnter call
C22_Witness ==
  /\ Quiescent
  /\ \E j \in NameChanges :
       /\ FromEntry(j).ref = ToEntry(j).ref
       /\ EventsOf(log[j].cid, "onUpdate") # {}
  /\ \E j \in NameChanges :
       /\ FromEntry(j).ref # ToEntry(j).ref
       /\ SameContent(FromEntry(j), ToEntry(j))
       /\ EventsOf(log[j].cid, "onExit") # {}
       /\ EventsOf(log[j].cid, "onEnter") # {}

(***************************************************************************)
(* Entering an entry without onEnter                                       *)
(***************************************************************************)

\* the commits that open a residency of an entry that declares no onEnter
EntersWithoutOnEnter ==
  {j \in LogIdx : IsCommit(j) /\ StartsRun(j) /\ log[j].entry # Undefined
                  /\ ~Declared(log[j].entry)}

\* hook set h was returned by the onEnter called for a commit later than j
InstalledAfter(h, j) ==
  \E j2 \in LogIdx : j2 > j /\ IsCommit(j2) /\ log[j2].cid = hookObjs[h].cid

\* C23: after a commit that enters a behavior entry without onEnter, the
\* commits that follow it call onUpdate and onExit only of hook sets that an
\* onEnter has installed since; no hook of a state resident before is
\* called by them.
C23_ClearedHooksStayCleared ==
  \A j \in EntersWithoutOnEnter :
    \A k \in LogIdx :
      (k > j /\ IsHookCall(log[k]) /\ log[k].inst = log[j].inst
         /\ log[k].cid # log[j].cid) =>
        InstalledAfter(log[k].hook, j)

(***************************************************************************)
(* What the hooks are given and what value() returns in them               *)
(***************************************************************************)

\* the commit a hook call belongs to
CommitOfHook(k) == CHOOSE j \in LogIdx : IsCommit(j) /\ log[j].cid = log[k].cid

\* C24: at the moment a hook is invoked, the commit has been made and is what
\* the hook sees: onEnter gets the value its commit stored and value()
\* returns that value; onExit gets the value its commit replaced; onUpdate
\* gets the value its commit replaced and the value it stored, and value()
\* returns the latter.
C24_CommitPrecedesHooks ==
  Len(log) > 0 =>
    LET k == Len(log)
        e == log[k]
    IN /\ e.ev = "onEnter" =>
            /\ e.val = log[CommitOfHook(k)].val
            /\ value[e.inst] = e.val
       /\ e.ev = "onExit" => e.prev = log[CommitOfHook(k)].prev
       /\ e.ev = "onUpdate" =>
            /\ e.prev = log[CommitOfHook(k)].prev
            /\ e.val = log[CommitOfHook(k)].val
            /\ value[e.inst] = e.val

(***************************************************************************)
(* An onEnter that returns nothing                                         *)
(***************************************************************************)

\* the onEnter calls, of the constructor or of a send, that returned nothing
VoidEnters ==
  {k \in LogIdx : /\ log[k].ev = "onEnter"
                  /\ EntryOf(D, log[k].entry).onEnter.result.returns = "void"}

\* the commits made while the residency opened by onEnter call k lasted:
\* those that stay in it and the one that leaves it
CommitsFrom(k) ==
  {j \in LogIdx : /\ IsCommit(j) /\ PrevCommit(j) # 0
                  /\ RunStartOf(PrevCommit(j)) = CommitOfHook(k)}

\* C25: after an onEnter that returned nothing, at construction or on a
\* transition, the commits that stay in that state call no onUpdate, the
\* commit that leaves it calls no onExit, and none of their sends raises:
\* each returns to its caller.
C25_VoidEnterMeansNoHooks ==
  \A k \in VoidEnters :
    \A j \in CommitsFrom(k) :
      /\ EventsOf(log[j].cid, "onUpdate") = {}
      /\ EventsOf(log[j].cid, "onExit") = {}
      /\ EventsOf(log[j].cid, "raise") = {}
      /\ Quiescent => EventsOf(log[j].cid, "return") # {}

\* an onEnter called by the constructor returned nothing and the Instance
\* has since committed in that state and left it; an onEnter called by a
\* send returned nothing and the Instance has since committed in that state
C25_Witness ==
  /\ Quiescent
  /\ \E k \in VoidEnters :
       /\ log[CommitOfHook(k)].name = "create"
       /\ \E j \in CommitsFrom(k) : log[j].entry = log[k].entry
       /\ \E j \in CommitsFrom(k) : log[j].entry # log[k].entry
  /\ \E k \in VoidEnters :
       /\ log[CommitOfHook(k)].name # "create"
       /\ CommitsFrom(k) # {}

(***************************************************************************)
(* The hook set create() leaves behind                                     *)
(***************************************************************************)

\* the events that end a constructor
CreatedEvents == {k \in LogIdx : log[k].ev = "created"}

\* the commit of the initial value of the Instance constructed at k
InitialCommit(k) ==
  CHOOSE j \in LogIdx : IsCommit(j) /\ log[j].name = "create"
                        /\ log[j].inst = log[k].inst

\* the value the Instance held when its constructor ended at k
ValueAtCreated(k) ==
  LET before == {j \in 1 .. (k - 1) : IsCommit(j) /\ log[j].inst = log[k].inst}
  IN log[CHOOSE j \in before : \A m \in before : m <= j].val

\* C26: when create() returns, the stored hook set, if any, was returned by
\* the onEnter of the entry value() resolves to.  When the onEnter of the
\* initial state has moved the Instance to another entry, the hook set it
\* returns is not the stored one, its onExit (if it has one) was called
\* when the initial residency ended, and no later commit calls its hooks.
C26_HooksBelongToValueAfterCreate ==
  \A k \in CreatedEvents :
    LET j0 == InitialCommit(k)
        mine == {h \in 1 .. Len(hookObjs) : hookObjs[h].cid = log[j0].cid}
        now == findStateBehavior(D, ValueAtCreated(k))
    IN /\ log[k].hook # Undefined => hookObjs[log[k].hook].entry = now
       /\ now # log[j0].entry =>
            \A h \in mine :
              /\ log[k].hook # h
              /\ hookObjs[h].onExit.defined =>
                   \E x \in 1 .. (k - 1) : log[x].ev = "onExit" /\ log[x].hook = h
              /\ \A x \in LogIdx :
                   (x > k /\ IsHookCall(log[x])) => log[x].hook # h

(***************************************************************************)
(* The residency a commit is compared with                                 *)
(***************************************************************************)

\* the commits made by sends
SendCommits == {j \in LogIdx : IsCommit(j) /\ log[j].name # "create"}

\* the entry of the value that commit j replaced
EntryBefore(j) == findStateBehavior(D, log[j].prev)

\* the hook sets returned by the onEnter that opened the residency which
\* was current immediately before commit j
HooksBefore(j) == HookSetsOf(RunStartOf(PrevCommit(j)))

\* onUpdate is called only for a commit that stays in the entry of the value
\* it replaced, onExit and onEnter only for one that leaves it; and once the
\* send is over, the call that was due has been made
ChoiceByEntryBefore ==
  \A j \in SendCommits :
    /\ EventsOf(log[j].cid, "onUpdate") # {} => log[j].entry = EntryBefore(j)
    /\ EventsOf(log[j].cid, "onExit") # {} => log[j].entry # EntryBefore(j)
    /\ EventsOf(log[j].cid, "onEnter") # {} => log[j].entry # EntryBefore(j)
    /\ (Quiescent /\ log[j].entry # EntryBefore(j) /\ Declared(log[j].entry)) =>
         EventsOf(log[j].cid, "onEnter") # {}

\* the hooks a commit calls are those returned for the residency that was
\* current immediately before it
HooksOfResidencyBefore ==
  \A j \in SendCommits :
    \A x \in EventsOf(log[j].cid, "onUpdate") \cup EventsOf(log[j].cid, "onExit") :
      log[x].hook \in HooksBefore(j)

\* C27: every commit made by a send is compared with the entry of the value
\* that was current immediately before it: it calls onUpdate only when it
\* stays in that entry and onExit/onEnter only when it leaves it, and the
\* hooks it calls are those of that immediately preceding residency.
C27_ComparedWithValueBeforeCommit ==
  /\ ChoiceByEntryBefore
  /\ HooksOfResidencyBefore

(***************************************************************************)
(* onExit of one hook set                                                  *)
(***************************************************************************)

\* the onExit calls made on hook set h
ExitsOf(h) == {x \in LogIdx : log[x].ev = "onExit" /\ log[x].hook = h}

\* C28: the onExit of the hook set returned by one onEnter call is invoked
\* at most once.
C28_ExitAtMostOncePerHookSet ==
  \A h \in 1 .. Len(hookObjs) : Cardinality(ExitsOf(h)) <= 1

(***************************************************************************)
(* The value stays within the declared states                              *)
(***************************************************************************)

\* the behaviors map has an entry for every declared state
Complete == DeclaredStates \subseteq DOMAIN D.behaviors

\* the value the factory returned for Instance i
InitialValue(i) ==
  log[CHOOSE j \in CommitsOf(i) : log[j].name = "create"].val

\* C29: when the factory returned a value that a declared state accepts and
\* the behaviors map is complete, value() is at all times, so after any
\* sequence of sends that returned, raised or were not handled, accepted by
\* a declared state predicate, and that state has a behavior entry.
C29_ValueStaysDeclared ==
  \A i \in DOMAIN created :
    (CommitsOf(i) # {} /\ ~Unaccepted(InitialValue(i)) /\ Complete) =>
      /\ ~Unaccepted(value[i])
      /\ findStateKey(D, value[i]) \in DOMAIN D.behaviors
      /\ findStateBehavior(D, value[i]) # Undefined

\* an Instance has been sent a message that committed, one that its state
\* does not handle and one whose transition function returned a value no
\* state accepts, which raised
C29_Witness ==
  /\ Quiescent
  /\ Complete
  /\ \E i \in DOMAIN created :
       /\ CommitsOf(i) # {} /\ ~Unaccepted(InitialValue(i))
       /\ \E j \in CommitsOf(i) : log[j].name # "create"
       /\ \E k \in LogIdx : log[k].ev = "ignored" /\ log[k].inst = i
       /\ \E k \in LogIdx : log[k].ev = "raise" /\ log[k].key = "newState"
                            /\ log[k].inst = i

(***************************************************************************)
(* The work of one send                                                    *)
(***************************************************************************)

\* the events logged for the send called at c, up to its end
WorkOf(c) ==
  (c + 1) .. (IF EndOf(c) = 0 THEN Len(log) ELSE EndOf(c))

\* no transition function and no hook of the send called at c sent a message
Plain(c) == \A x \in WorkOf(c) : log[x].ev # "call"

\* the events of one kind among those of the send called at c
WorkOfKind(c, what) == {x \in WorkOf(c) : log[x].ev = what}

\* the send called at c has called at most one transition function, one of
\* the entry of the value current at the call and before anything else; then
\* at most one onUpdate, or at most one onExit followed by at most one
\* onEnter; and once it is over nothing of it is left to run: the next
\* thing that happens is another call
OneStep(c) ==
  /\ Cardinality(WorkOfKind(c, "transition")) <= 1
  /\ \A x \in WorkOfKind(c, "transition") :
       /\ x = c + 1
       /\ log[x].entry = findStateBehavior(D, log[c].val)
       /\ log[x].prev = log[c].val
  /\ Cardinality(WorkOfKind(c, "commit")) <= 1
  /\ Cardinality(WorkOfKind(c, "onUpdate")) <= 1
  /\ Cardinality(WorkOfKind(c, "onExit")) <= 1
  /\ Cardinality(WorkOfKind(c, "onEnter")) <= 1
  /\ WorkOfKind(c, "onUpdate") # {} =>
       WorkOfKind(c, "onExit") \cup WorkOfKind(c, "onEnter") = {}
  /\ \A x \in WorkOfKind(c, "onUpdate") \cup WorkOfKind(c, "onExit")
                \cup WorkOfKind(c, "onEnter") :
       \E t \in WorkOfKind(c, "transition") : t < x
  /\ \A x \in WorkOfKind(c, "onExit") :
       \A e \in WorkOfKind(c, "onEnter") : x < e
  /\ EndOf(c) # 0 =>
       /\ EndOf(c) = Len(log) => Idle0 /\ timers = {}
       /\ EndOf(c) < Len(log) => log[EndOf(c) + 1].ev = "call"

\* C30: a send in which no transition function and no hook sends a message
\* ends, and by then it has called at most one transition function, which
\* is one of the entry of the value current at the call, and after it
\* either at most one onUpdate or at most one onExit followed by at most
\* one onEnter; nothing of it is left to run after it has ended.
C30_SendRunsToCompletion ==
  /\ [](\A c \in TopCalls : Plain(c) => OneStep(c))
  /\ (~Idle0) ~> Idle0

\* three plain sends are over: one called a transition function, onExit and
\* onEnter, one a transition function and onUpdate, one nothing at all
C30_Witness ==
  /\ Idle0
  /\ \E c \in TopCalls :
       /\ Plain(c)
       /\ WorkOfKind(c, "onExit") # {} /\ WorkOfKind(c, "onEnter") # {}
  /\ \E c \in TopCalls : Plain(c) /\ WorkOfKind(c, "onUpdate") # {}
  /\ \E c \in TopCalls : Plain(c) /\ WorkOfKind(c, "transition") = {}

(***************************************************************************)
(* State predicates that are not mutually exclusive                        *)
(***************************************************************************)

\* the positions, in declaration order, of the states whose predicate
\* accepts v
Accepting(v) == {k \in 1 .. Len(D.states) : v.type \in D.states[k].accepts}

\* the name of the state declared first among those that accept v
FirstAccepting(v) ==
  D.states[CHOOSE k \in Accepting(v) : \A m \in Accepting(v) : k <= m].name

\* the entry object of the state declared first among those that accept v
FirstEntry(v) == D.behaviors[FirstAccepting(v)].ref

\* v is accepted by more than one predicate
Ambiguous(v) == Cardinality(Accepting(v)) > 1

\* C31: a value is resolved to the state declared first among those whose
\* predicate accepts it.  The transition function a send calls is taken
\* from the entry of that state, the diagnostic of an unhandled message
\* names that state, a commit enters the entry of that state, and the
\* choice between onUpdate and onExit/onEnter compares the entries of the
\* first accepting states of the old and of the new value.
C31_FirstDeclaredStateWins ==
  /\ \A x \in LogIdx :
       /\ log[x].ev = "transition" => log[x].entry = FirstEntry(log[x].prev)
       /\ (log[x].ev = "warn" /\ log[x].key # UndefinedKey) =>
            log[x].key = FirstAccepting(log[MatchingCall(x)].val)
       /\ (IsCommit(x) /\ Accepting(log[x].val) # {}) =>
            log[x].entry = FirstEntry(log[x].val)
  /\ \A j \in SendCommits :
       /\ EventsOf(log[j].cid, "onUpdate") # {} =>
            FirstEntry(log[j].prev) = FirstEntry(log[j].val)
       /\ EventsOf(log[j].cid, "onExit") # {} =>
            FirstEntry(log[j].prev) # FirstEntry(log[j].val)
       /\ EventsOf(log[j].cid, "onEnter") # {} =>
            FirstEntry(log[j].prev) # FirstEntry(log[j].val)
       /\ (Quiescent /\ FirstEntry(log[j].prev) = FirstEntry(log[j].val)
             /\ HasHook(log[j].hook, "onUpdate")) =>
            EventsOf(log[j].cid, "onUpdate") # {}

\* a value that two predicates accept has been the current value of a send
\* that called a transition function and of one that was not handled, and a
\* commit that replaced it by a value of the earlier state alone has called
\* onUpdate
C31_Witness ==
  /\ Quiescent
  /\ \E x \in LogIdx : log[x].ev = "transition" /\ Ambiguous(log[x].prev)
  /\ \E x \in LogIdx : /\ log[x].ev = "warn" /\ log[x].key # UndefinedKey
                       /\ Ambiguous(log[MatchingCall(x)].val)
  /\ \E j \in SendCommits :
       /\ Ambiguous(log[j].prev) /\ ~Ambiguous(log[j].val)
       /\ EventsOf(log[j].cid, "onUpdate") # {}

(***************************************************************************)
(* A descriptor the reverse map does not know                              *)
(***************************************************************************)

\* the ids of the descriptors given to messages()
DeclaredIds == {descriptors[D.messages[k][2]] : k \in 1 .. Len(D.messages)}

\* the send calls
Calls == {c \in LogIdx : log[c].ev = "call"}

\* the descriptor of the send called at c is not in the reverse map
AbsentId(c) == DescriptorOf(D, log[c].name) \notin DeclaredIds

\* C32: the reverse map holds the ids of the descriptors given to
\* messages() and nothing else, whatever is sent later, and the message
\* name a send works with is the one found there under the id of its
\* descriptor.  A send whose descriptor has an id that is not in the map
\* raises to its caller: after the state was resolved (a current value no
\* state accepts is reported first), before any transition function, with
\* value() and the hook set as they were at the call.
C32_AbsentIdRaises ==
  /\ stage = "FSMDescription" => DOMAIN reverseMessageMap = DeclaredIds
  /\ \A c \in Calls :
       c < Len(log) =>
         /\ (log[c + 1].ev = "transition" \/ log[c + 1].ev = "warn") =>
              /\ ~AbsentId(c)
              /\ log[c + 1].name = reverseMessageMap[DescriptorOf(D, log[c].name)]
         /\ (log[c + 1].ev = "raise" /\ log[c + 1].key = "message") => AbsentId(c)
         /\ AbsentId(c) =>
              /\ log[c + 1].ev = "raise"
              /\ log[c + 1].key =
                   IF findStateBehavior(D, log[c].val) = Undefined
                   THEN "state" ELSE "message"
              /\ log[c + 1].val = log[c].val
              /\ log[c + 1].hook = log[c].hook
              /\ (c + 1 = Len(log)) =>
                   /\ Idle0
                   /\ value[log[c].inst] = log[c].val
                   /\ hooks[log[c].inst] = log[c].hook

\* a send of the caller and a send of an onEnter have raised for a
\* descriptor that is not in the reverse map
C32_Witness ==
  /\ Idle0
  /\ \E c \in Calls :
       /\ AbsentId(c) /\ log[c].depth = 1
       /\ log[c + 1].ev = "raise" /\ log[c + 1].key = "message"
  /\ \E c \in Calls :
       /\ AbsentId(c) /\ log[c].depth > 1
       /\ log[c + 1].ev = "raise" /\ log[c + 1].key = "message"

(***************************************************************************)
(* send.<name> and the handler of that name                                *)
(***************************************************************************)

\* C33: send.<name> looks for its handler under <name>: the transition
\* function it calls is the one registered under that name in the handling
\* map of the current entry, or the wildcard when that name has none, and a
\* diagnostic for an unhandled message names that message.
C33_HandlerOfSameName ==
  \A c \in Calls :
    c < Len(log) =>
      /\ log[c + 1].ev = "transition" =>
           /\ log[c + 1].name = log[c].name
           /\ log[c + 1].key \in {log[c].name, "_"}
      /\ log[c + 1].ev = "warn" => log[c + 1].name = log[c].name

(***************************************************************************)
(* The observable adapter and the hooks                                    *)
(***************************************************************************)

\* the lifecycle calls made for the commit with id c
HookCallsOf(c) ==
  EventsOf(c, "onUpdate") \cup EventsOf(c, "onExit") \cup EventsOf(c, "onEnter")

\* no listener has sent a message while commit j was delivered
QuietDelivery(j) ==
  \A x \in Calls : ~(log[x].key = "listener" /\ log[x].cid = log[j].cid)

\* the hooks the dispatcher calls for commit j when nothing comes between
\* the commit and its hooks: onUpdate when the entry stays, else onExit and
\* then onEnter, each if there is one
PlainHooks(j) ==
  LET c == log[j].cid
  IN IF log[j].entry = EntryBefore(j)
     THEN /\ EventsOf(c, "onExit") = {} /\ EventsOf(c, "onEnter") = {}
          /\ Cardinality(EventsOf(c, "onUpdate")) =
               IF HasHook(log[j].hook, "onUpdate") THEN 1 ELSE 0
     ELSE /\ EventsOf(c, "onUpdate") = {}
          /\ Cardinality(EventsOf(c, "onExit")) =
               IF HasHook(log[j].hook, "onExit") THEN 1 ELSE 0
          /\ Cardinality(EventsOf(c, "onEnter")) =
               IF Declared(log[j].entry) THEN 1 ELSE 0
          /\ \A x \in EventsOf(c, "onExit") : \A e \in EventsOf(c, "onEnter") : x < e

\* every delivery of a commit comes after the commit and before each of its
\* lifecycle calls
DeliveredBeforeHooks ==
  \A j \in LogIdx :
    IsCommit(j) =>
      \A x \in EventsOf(log[j].cid, "deliver") :
        /\ j < x \/ log[j].name = "create"
        /\ \A h \in HookCallsOf(log[j].cid) : x < h

\* C34: in an observable Instance every committed value is delivered to the
\* listeners before any onUpdate, onExit or onEnter of that commit is
\* called, and the hooks called for a commit, and their order, are those
\* the dispatcher calls in an Instance without listeners.
C34_AdapterIsSideChannel ==
  /\ DeliveredBeforeHooks
  /\ Quiescent =>
       \A j \in SendCommits : QuietDelivery(j) => PlainHooks(j)

(***************************************************************************)
(* What a listener has seen when send returns                              *)
(***************************************************************************)

\* the calls of listener key of Instance i, for whatever commit
DeliveredTo(i, key) ==
  {k \in LogIdx : IsEv(k, "deliver") /\ log[k].arg = i /\ log[k].entry = key}

\* no send to Instance i has raised
NeverRaised(i) == \A k \in LogIdx : ~(IsEv(k, "raise") /\ log[k].inst = i)

\* C35: when no call is running on an observable Instance none of whose
\* sends has raised, every attached listener that has been called at all
\* was called last with the value value() returns, and was called with the
\* committed values in the order of their commits.
C35_ListenersSeeLatest ==
  Quiescent =>
    \A i \in DOMAIN created :
      (created[i] = "yes" /\ NeverRaised(i)) =>
        \A key \in DOMAIN followers[ObserverOf(i)] :
          LET ds == DeliveredTo(i, key)
          IN /\ ds # {} =>
                  log[CHOOSE k \in ds : \A m \in ds : m <= k].val = value[i]
             /\ \A k1, k2 \in ds : k1 < k2 => log[k1].cid < log[k2].cid

(***************************************************************************)
(* Detaching a listener from inside a listener                             *)
(***************************************************************************)

\* the unsubscribe() calls made by a listener while a value is delivered
InnerUnsubscribes == {u \in LogIdx : IsEv(u, "unsubscribe") /\ log[u].depth > 0}

\* the delivery during which unsubscribe u was called
DeliveryOf(u) ==
  LET before == {k \in 1 .. (u - 1) : IsEv(k, "deliver")}
  IN CHOOSE k \in before : \A m \in before : m <= k

\* C36: when a listener detaches another listener while a value is
\* delivered, the send that delivers does not raise, the detached listener
\* is not called any more, for this value or a later one, and once the send
\* is over every other listener attached at the commit has been called with
\* the value.
C36_DetachInsideDelivery ==
  \A u \in InnerUnsubscribes :
    LET j == CommitOf(DeliveryOf(u))
        o == log[u].arg
    IN /\ \A k \in LogIdx :
            (k > u /\ IsEv(k, "raise")) => log[k].key # "followers"
       /\ \A k \in LogIdx :
            (k > u /\ IsEv(k, "deliver") /\ log[k].arg = o) =>
              log[k].entry # log[u].entry
       /\ Quiescent =>
            \A key \in AttachedAt(o, j) :
              UnsubscribesOf(o, key) = {} => Cardinality(Deliveries(j, key)) = 1

(***************************************************************************)
(* A hook that raises                                                      *)
(***************************************************************************)

\* the raises that come out of a lifecycle hook of a send: the hook has
\* called a send that throws, and does not catch
HookRaises ==
  {r \in LogIdx : /\ IsEv(r, "raise") /\ r > 1 /\ IsEv(r - 1, "call")
                  /\ log[r - 1].key \in {"onUpdate", "onExit", "onEnter"}
                  /\ log[CommitOfHook(r - 1)].name # "create"}

AttachmentOf(k) ==
  CHOOSE a \in LogIdx : /\ IsEv(a, "onValue")
                        /\ log[a].arg = ObserverOf(log[k].inst)
                        /\ log[a].entry = log[k].entry

\* the deliveries made to the listener that onValue call a attached
ReceivedBy(a) ==
  {k \in LogIdx : /\ IsEv(k, "deliver") /\ ObserverOf(log[k].inst) = log[a].arg
                  /\ log[k].entry = log[a].entry}

\* the listeners attached by the factory, by the caller after create() has
\* returned, and by a listener during a delivery
FactoryAttached == {a \in LogIdx : IsEv(a, "onValue") /\ log[a].cid # 0}
CallerAttached == {a \in LogIdx : IsEv(a, "onValue") /\ log[a].cid = 0 /\ log[a].depth = 0}
AttachedInDelivery == {a \in LogIdx : IsEv(a, "onValue") /\ log[a].cid = 0 /\ log[a].depth > 0}

\* C38: a listener is called only with values committed after it was
\* attached; the initial value goes only to the listeners attached inside the
\* observable factory of that create().  A listener attached by the caller
\* after create() or by a listener during a delivery is never called with
\* the value that was current, or being delivered, when it was attached.
C38_NoReplayOnAttach ==
  \A k \in LogIdx :
    IsEv(k, "deliver") =>
      LET j == CommitOf(k)
          a == AttachmentOf(k)
      IN /\ \/ a < j
            \/ log[j].name = "create" /\ a \in FactoryAttached
         /\ log[j].name = "create" =>
              /\ a \in FactoryAttached
              /\ log[a].cid = log[j].cid
         /\ log[k].val = log[j].val

\* a listener attached by the caller and a listener attached during a
\* delivery have each been called with a later value, and the listener of
\* the factory with the initial value
C38_Witness ==
  /\ Idle0
  /\ \E a \in CallerAttached : ReceivedBy(a) # {}
  /\ \E a \in AttachedInDelivery : ReceivedBy(a) # {}
  /\ \E a \in FactoryAttached :
       \E k \in ReceivedBy(a) : log[CommitOf(k)].name = "create"

(***************************************************************************)
(* The builder chain and the reuse of a stage                              *)
(***************************************************************************)

\* the classes of the chain in the order their methods lead from one to the
\* next
StageOrder ==
  << "FSMTyped", "FSMWithStates", "FSMWithStatesInitialized",
     "FSMMessagesInitialized", "FSMDescription" >>
StageRank(s) == CHOOSE k \in 1 .. Len(StageOrder) : StageOrder[k] = s

\* the Description Instance i was created from and the entries of its
\* behaviors map
OwnDescription(i) == Description(descriptionOf[i])
OwnRefs(i) ==
  {OwnDescription(i).behaviors[k].ref : k \in DOMAIN OwnDescription(i).behaviors}

\* the value Instance i had committed last before event j
ValueBefore(i, j) ==
  LET before == {c \in CommitsOf(i) : c < j}
  IN log[CHOOSE c \in before : \A m \in before : m <= c].val

\* nothing is instantiated or called before behaviors() has returned, and
\* every Instance runs, at every step of every send, on the entries of the
\* Description it was created from, whatever was built since
C39_OwnDescription ==
  /\ stage # "FSMDescription" => log = << >>
  /\ \A i \in DOMAIN created :
       created[i] # "no" => /\ stage = "FSMDescription"
                            /\ descriptionOf[i] \in SkeletonDescNames
  /\ \A j \in LogIdx :
       LET i == log[j].inst
       IN /\ log[j].ev \in {"commit", "onEnter"} => log[j].entry \in OwnRefs(i)
          /\ IsEv(j, "transition") =>
               /\ log[j].entry \in OwnRefs(i)
               /\ log[j].prev = ValueBefore(i, j)
               /\ log[j].key \in DOMAIN EntryOf(OwnDescription(i), log[j].entry).handling
               /\ j < Len(log) =>
                    /\ IsCommit(j + 1)
                    /\ log[j + 1].inst = i
                    /\ log[j + 1].val =
                         HandlerResult(
                           EntryOf(OwnDescription(i), log[j].entry).handling[log[j].key],
                           log[j].prev, log[j].arg)
  /\ \A h \in DOMAIN hookObjs : hookObjs[h].entry \in OwnRefs(hookObjs[h].inst)
  /\ Idle0 => \A i \in DOMAIN created :
                created[i] = "yes" => value[i] = log[LastCommit(i)].val

\* the chain is walked one class at a time; a further behaviors() call
\* changes no Instance; a step of one Instance changes no other
C39_Step ==
  /\ stage' # stage => StageRank(stage') = StageRank(stage) + 1
  /\ d' # d => /\ stage = "FSMDescription"
               /\ UNCHANGED << created, value, hooks, hookObjs, descriptionOf, log >>
  /\ \A j \in DOMAIN created :
       j # Acting => /\ value'[j] = value[j]
                     /\ hooks'[j] = hooks[j]
                     /\ descriptionOf'[j] = descriptionOf[j]
                     /\ created'[j] = created[j]

\* C39: create() is reached only through states(), withInitialState(),
\* messages() and behaviors(), in that order; behaviors() can be called again
\* on the same messages-stage, and each call yields a Description of its own:
\* the Instances of one run on its behaviors map only and are not changed
\* by the other Description or by its Instances.
C39_ChainCompleteAndStageReusable ==
  /\ []C39_OwnDescription
  /\ [][C39_Step]_vars

\* an Instance of each of the two Descriptions has committed a send, the
\* last of them by the Instance of the Description built first
C39_Witness ==
  /\ Idle0
  /\ \A i \in DOMAIN created : created[i] = "yes"
  /\ descriptionOf[1] # descriptionOf[2]
  /\ \A i \in DOMAIN created : \E j \in CommitsOf(i) : log[j].name # "create"
  /\ \E i \in DOMAIN created :
       /\ descriptionOf[i] # d
       /\ \A m \in LogIdx : IsCommit(m) => m <= LastCommit(i)

====
